---- MODULE Spec2Model ----
(***************************************************************************)
(* TPC-C demonstration web application (Flask handlers in app.py, service  *)
(* classes, SpannerConnector).  The database is external: the model keeps  *)
(* its contents in db and lets every statement of a request either run or  *)
(* fail.  A request is handled by one action (the whole handler, with the  *)
(* service and connector calls it makes); Done returns the worker to idle. *)
(***************************************************************************)
EXTENDS Integers, Sequences, FiniteSets, TLC

VARIABLES db, connector, singletons, pc, req, got, resp, qlog, raised, before, again,
          threads

vars == <<db, connector, singletons, pc, req, got, resp, qlog, raised, before, again,
          threads>>

(***************************************************************************)
(* Bounds of the model.                                                    *)
(***************************************************************************)
MaxW == 2
MaxRows == 3
MaxPage == 3
MaxLimit == 2
MaxItemId == 2
MaxItems == 2
MaxMissing == 1
MaxFaults == 1
MaxWorkers == 2
MaxCommits == 1
MaxQuantity == 100
MaxRawRows == 2
MaxWidth == 2
MaxWide == 6

(***************************************************************************)
(* Program constants.                                                      *)
(***************************************************************************)
DefaultOrdersLimit == 50
DefaultInventoryLimit == 100
DefaultPaymentsLimit == 50
DefaultPage == 1
DefaultThreshold == 10
DefaultRecentLimit == 20

(***************************************************************************)
(* Python's None and an optional value: None is the empty set, a present   *)
(* value x is {x}.                                                         *)
(***************************************************************************)
None == {}
Some(x) == {x}
Val(o) == CHOOSE x \in o : TRUE
OrElse(o, d) == IF o = None THEN d ELSE Val(o)

WIds == 1..MaxW

\* The requests in progress, one entry per worker thread of the server; the
\* handler-granular specifications run one request at a time and keep none.
NoThreads == <<>>
Min(a, b) == IF a <= b THEN a ELSE b

\* Python's a // b for b # 0 (floor division, also for a negative divisor).
PyFloorDiv(a, b) == IF b > 0 THEN a \div b ELSE (0 - a) \div (0 - b)

RECURSIVE Reverse(_)
Reverse(s) == IF s = <<>> THEN <<>> ELSE Append(Reverse(Tail(s)), Head(s))

(***************************************************************************)
(* The database.  orders, stock and history hold one entry per row, the    *)
(* row's warehouse id, in insertion order (o_entry_d, h_date ascending).   *)
(***************************************************************************)
WSeqs(n) == UNION {[1..k -> WIds] : k \in 0..n}

\* The o_id of the k-th order: orders of a district are numbered 1, 2, ...
DenseOrderId(ws, k) == Cardinality({j \in 1..k : ws[j] = ws[k]})

OrderRows(ws) == [k \in 1..Len(ws) |-> [w |-> ws[k], d |-> 1, c |-> 1, o_id |-> DenseOrderId(ws, k)]]
StockRows(ws) == [k \in 1..Len(ws) |-> [w |-> ws[k], i |-> k, qty |-> 10 * k]]
HistoryRows(ws) == [k \in 1..Len(ws) |-> [w |-> ws[k]]]

EmptyDb ==
    [orders |-> <<>>, stock |-> <<>>, history |-> <<>>,
     warehouse |-> {}, district |-> {}, customer |-> {}, item |-> {},
     order_line |-> <<>>]

\* Databases of at most MaxRows order, stock and payment rows.
Databases ==
    {[EmptyDb EXCEPT !.orders = OrderRows(t[1]), !.stock = StockRows(t[2]),
                     !.history = HistoryRows(t[3])] :
        t \in {u \in WSeqs(MaxRows) \X WSeqs(MaxRows) \X WSeqs(MaxRows) :
                  Len(u[1]) + Len(u[2]) + Len(u[3]) <= MaxRows}}

\* The failure dict of the services and the connector.
Failure(msg) == [success |-> FALSE, error |-> msg]

\* COUNT(o_id) + 1 over the orders of a district (what C25 excludes).
OrderCountPlus1(d, w, dist) ==
    Cardinality({j \in DOMAIN d.orders : d.orders[j].w = w /\ d.orders[j].d = dist}) + 1

\* COALESCE(MAX(o_id), 0) + 1 over the orders of a district.
NextOrderId(d, w, dist) ==
    LET ids == {d.orders[k].o_id : k \in {j \in DOMAIN d.orders :
                                            d.orders[j].w = w /\ d.orders[j].d = dist}}
    IN  IF ids = {} THEN 1 ELSE (CHOOSE n \in ids : \A m \in ids : m <= n) + 1

\* WHERE <table>.w_id = $1, added only when warehouse_id is not None.
Matching(rows, warehouse_id) ==
    SelectSeq(rows, LAMBDA r : warehouse_id = None \/ r.w = Val(warehouse_id))

\* The database rejects a negative LIMIT or OFFSET; LIMIT 0 is accepted.
DbAcceptsPage(limit, offset) == limit >= 0 /\ offset >= 0

\* ORDER BY ... LIMIT limit OFFSET offset over the matching rows in result order.
PageRows(sorted, limit, offset) ==
    SubSeq(sorted, offset + 1, Min(offset + limit, Len(sorted)))

(***************************************************************************)
(* A populated database: every warehouse has district 1 with customer 1,   *)
(* every item is stocked in every warehouse, every order has one order     *)
(* line.  TxnDatabases are the populated database with at most MaxMissing  *)
(* rows missing and at most MaxRows orders.                                *)
(***************************************************************************)
ItemIds == 1..MaxItemId

FullStock ==
    [k \in 1..(MaxW * MaxItemId) |->
        [w |-> ((k - 1) \div MaxItemId) + 1, i |-> ((k - 1) % MaxItemId) + 1, qty |-> 10 * k]]

OrderLineRows(ws) ==
    [k \in 1..Len(ws) |->
        [w |-> ws[k], d |-> 1, o_id |-> DenseOrderId(ws, k), i |-> ((k - 1) % MaxItemId) + 1]]

Missing ==
    {m \in [warehouse : SUBSET WIds, district : SUBSET WIds, customer : SUBSET WIds,
            item : SUBSET ItemIds, stock : SUBSET (WIds \X ItemIds)] :
        Cardinality(m.warehouse) + Cardinality(m.district) + Cardinality(m.customer)
            + Cardinality(m.item) + Cardinality(m.stock) <= MaxMissing}

\* Populated databases in which two customers of warehouse 1 have placed the
\* orders, in any order.
TwoCustomerDatabases ==
    {[orders |-> [k \in DOMAIN cs |-> [w |-> 1, d |-> 1, c |-> cs[k], o_id |-> k]],
      history |-> <<>>,
      stock |-> FullStock,
      warehouse |-> WIds,
      district |-> {<<w, 1>> : w \in WIds},
      customer |-> {<<w, 1, c>> : w \in WIds, c \in 1..2},
      item |-> ItemIds,
      order_line |-> [k \in DOMAIN cs |-> [w |-> 1, d |-> 1, o_id |-> k,
                                           i |-> ((k - 1) % MaxItemId) + 1]]] :
        cs \in UNION {[1..n -> 1..2] : n \in 1..MaxRows}}

\* Populated databases whose orders of warehouse 1 carry any distinct ids, in
\* any order, next to one order of warehouse 2 with a greater id.
SparseOrderDatabases ==
    {[orders |-> [k \in DOMAIN ids |-> [w |-> 1, d |-> 1, c |-> 1, o_id |-> ids[k]]]
                 \o <<[w |-> 2, d |-> 1, c |-> 1, o_id |-> MaxRows + 1]>>,
      history |-> <<>>,
      stock |-> FullStock,
      warehouse |-> WIds,
      district |-> {<<w, 1>> : w \in WIds},
      customer |-> {<<w, 1, 1>> : w \in WIds},
      item |-> ItemIds,
      order_line |-> [k \in DOMAIN ids |-> [w |-> 1, d |-> 1, o_id |-> ids[k], i |-> 1]]
                     \o <<[w |-> 2, d |-> 1, o_id |-> MaxRows + 1, i |-> 1]>>] :
        ids \in {f \in UNION {[1..n -> 1..MaxRows] : n \in 1..2} :
                    \A a, b \in DOMAIN f : a # b => f[a] # f[b]}}

TxnDatabases ==
    {[orders |-> OrderRows(ws), history |-> HistoryRows(ws),
      stock |-> SelectSeq(FullStock, LAMBDA r : <<r.w, r.i>> \notin m.stock),
      warehouse |-> WIds \ m.warehouse,
      district |-> {<<w, 1>> : w \in WIds \ m.district},
      customer |-> {<<w, 1, 1>> : w \in WIds \ m.customer},
      item |-> ItemIds \ m.item,
      order_line |-> OrderLineRows(ws)] : m \in Missing, ws \in WSeqs(MaxRows)}

(***************************************************************************)
(* SpannerConnector.__init__: client, instance and database are set         *)
(* together, or stay None when the configuration is missing or the client  *)
(* cannot be created.                                                      *)
(***************************************************************************)
ConnectorStates ==
    { [provider_name |-> "Google Cloud Spanner",
       client |-> None, instance |-> None, database |-> None],
      [provider_name |-> "Google Cloud Spanner",
       client |-> Some("client"), instance |-> Some("instance"), database |-> Some("database")] }

\* initialize_services: the module-level singletons after start-up.
InitialSingletons ==
    [db_connector |-> "SpannerConnector", order_service |-> "OrderService",
     inventory_service |-> "InventoryService", payment_service |-> "PaymentService",
     analytics_service |-> "AnalyticsService"]

(***************************************************************************)
(* Paginated getters of the connector.  faults is the set of statement     *)
(* positions (1 = count query, 2 = page query) that fail in this call.     *)
(***************************************************************************)
\* A failure value that would still report a previous page (what C20 excludes).
PaginatedFailureWithPrev(limit, offset) ==
    [rows |-> <<>>, total_count |-> 0, limit |-> limit, offset |-> offset,
     has_next |-> FALSE, has_prev |-> offset > 0]

PaginatedFailure(limit, offset) ==
    [rows |-> <<>>, total_count |-> 0, limit |-> limit, offset |-> offset,
     has_next |-> FALSE, has_prev |-> FALSE]

get_orders(conn, d, warehouse_id, limit, offset, faults) ==
    IF conn.database = None \/ 1 \in faults
    THEN PaginatedFailure(limit, offset)
    ELSE LET matching == Matching(d.orders, warehouse_id)
             total_count == Len(matching)
         IN  IF 2 \in faults \/ ~DbAcceptsPage(limit, offset)
             THEN PaginatedFailure(limit, offset)
             ELSE [rows |-> PageRows(Reverse(matching), limit, offset),
                   total_count |-> total_count, limit |-> limit, offset |-> offset,
                   has_next |-> (offset + limit) < total_count,
                   has_prev |-> offset > 0]

get_inventory_paginated(conn, d, warehouse_id, limit, offset, faults) ==
    IF conn.database = None \/ 1 \in faults
    THEN PaginatedFailure(limit, offset)
    ELSE LET matching == Matching(d.stock, warehouse_id)
             total_count == Len(matching)
         IN  IF 2 \in faults \/ ~DbAcceptsPage(limit, offset)
             THEN PaginatedFailure(limit, offset)
             ELSE [rows |-> PageRows(matching, limit, offset),
                   total_count |-> total_count, limit |-> limit, offset |-> offset,
                   has_next |-> (offset + limit) < total_count,
                   has_prev |-> offset > 0]

get_payment_history_paginated(conn, d, warehouse_id, limit, offset, faults) ==
    IF conn.database = None \/ 1 \in faults
    THEN PaginatedFailure(limit, offset)
    ELSE LET matching == Matching(d.history, warehouse_id)
             total_count == Len(matching)
         IN  IF 2 \in faults \/ ~DbAcceptsPage(limit, offset)
             THEN PaginatedFailure(limit, offset)
             ELSE [rows |-> PageRows(Reverse(matching), limit, offset),
                   total_count |-> total_count, limit |-> limit, offset |-> offset,
                   has_next |-> (offset + limit) < total_count,
                   has_prev |-> offset > 0]

\* The statements a paginated getter hands to the database: the count query,
\* then, when it ran, the page query.
PaginatedLog(conn, countSite, pageSite, limit, offset, faults) ==
    IF conn.database = None THEN <<>>
    ELSE IF 1 \in faults
    THEN <<[stmt |-> "count_query", args |-> <<>>, site |-> countSite, iter |-> 0, ok |-> FALSE]>>
    ELSE <<[stmt |-> "count_query", args |-> <<>>, site |-> countSite, iter |-> 0, ok |-> TRUE],
           [stmt |-> "query", args |-> <<limit, offset>>, site |-> pageSite, iter |-> 0,
            ok |-> 2 \notin faults /\ DbAcceptsPage(limit, offset)]>>

(***************************************************************************)
(* SpannerConnector.get_order_status: the most recent order of a customer  *)
(* (position 1), then its order lines (position 2).                        *)
(***************************************************************************)
\* An order query that would not filter on the customer (what C21 excludes).
DistrictOrders(d, w, dist, c) ==
    SelectSeq(d.orders, LAMBDA o : o.w = w /\ o.d = dist)

CustomerOrders(d, w, dist, c) ==
    SelectSeq(d.orders, LAMBDA o : /\ o.w = w /\ o.d = dist /\ o.c = c
                                   /\ <<w, dist, c>> \in d.customer)

OrderLinesOf(d, w, dist, order_id) ==
    SelectSeq(d.order_line, LAMBDA ol : /\ ol.w = w /\ ol.d = dist /\ ol.o_id = order_id
                                        /\ ol.i \in d.item)

StatusLog(first, second) ==
    <<[stmt |-> "query", args |-> <<>>, site |-> "spanner_connector.py:525", iter |-> 0,
       ok |-> first]>>
    \o (IF second = None THEN <<>>
        ELSE <<[stmt |-> "order_lines_query", args |-> <<>>,
                site |-> "spanner_connector.py:589", iter |-> 0, ok |-> Val(second)]>>)

OrderStatusOf(found, lines, faults) ==
    IF found = <<>>
    THEN [result |-> Failure("Order not found"), log |-> StatusLog(TRUE, None)]
    ELSE IF found[Len(found)].o_id = 0
    THEN [result |-> Failure("Invalid order data structure"), log |-> StatusLog(TRUE, None)]
    ELSE IF 2 \in faults
    THEN [result |-> Failure("order lines query failed"), log |-> StatusLog(TRUE, Some(FALSE))]
    ELSE [result |-> [success |-> TRUE, order_id |-> found[Len(found)].o_id,
                      order_line_count |-> Len(lines), order_lines |-> lines],
          log |-> StatusLog(TRUE, Some(TRUE))]

get_order_status(conn, d, w, dist, c, faults) ==
    IF conn.database = None
    THEN [result |-> Failure("'NoneType' object has no attribute 'snapshot'"), log |-> <<>>]
    ELSE IF 1 \in faults
    THEN [result |-> Failure("query failed"), log |-> StatusLog(FALSE, None)]
    ELSE LET found == CustomerOrders(d, w, dist, c)
         IN  OrderStatusOf(found,
                           IF found = <<>> THEN <<>>
                           ELSE OrderLinesOf(d, w, dist, found[Len(found)].o_id),
                           faults)

\* OrderService.get_order_status passes the call through to the connector.
order_service_get_order_status(conn, d, w, dist, c, faults) ==
    get_order_status(conn, d, w, dist, c, faults)

(***************************************************************************)
(* SpannerConnector.get_stock_level: one count over stock joined with      *)
(* the order lines of the district's last 20 orders.                       *)
(***************************************************************************)
LowStockCount(d, w, dist, threshold) ==
    Len(SelectSeq(d.order_line,
        LAMBDA ol : /\ ol.w = w /\ ol.d = dist
                    /\ ol.o_id >= NextOrderId(d, w, dist) - 20
                    /\ ol.o_id < NextOrderId(d, w, dist)
                    /\ \E k \in DOMAIN d.stock :
                          /\ d.stock[k].w = w /\ d.stock[k].i = ol.i
                          /\ d.stock[k].qty < threshold))

get_stock_level(conn, d, w, dist, threshold, faults) ==
    IF conn.database = None
    THEN [result |-> Failure("'NoneType' object has no attribute 'snapshot'"), log |-> <<>>]
    ELSE IF 1 \in faults
    THEN [result |-> Failure("query failed"),
          log |-> <<[stmt |-> "query", args |-> <<>>, site |-> "spanner_connector.py:854",
                     iter |-> 0, ok |-> FALSE]>>]
    ELSE [result |-> [success |-> TRUE, warehouse_id |-> w, district_id |-> dist,
                      threshold |-> threshold,
                      low_stock_count |-> LowStockCount(d, w, dist, threshold)],
          log |-> <<[stmt |-> "query", args |-> <<>>, site |-> "spanner_connector.py:854",
                     iter |-> 0, ok |-> TRUE]>>]

\* InventoryService.get_stock_level passes the call through to the connector.
inventory_service_get_stock_level(conn, d, w, dist, threshold, faults) ==
    get_stock_level(conn, d, w, dist, threshold, faults)

\* OrderService.get_orders passes the call through to the connector.
order_service_get_orders(conn, d, warehouse_id, limit, offset, faults) ==
    get_orders(conn, d, warehouse_id, limit, offset, faults)

\* InventoryService and PaymentService pass the call through to the connector.
inventory_service_get_inventory_paginated(conn, d, warehouse_id, limit, offset, faults) ==
    get_inventory_paginated(conn, d, warehouse_id, limit, offset, faults)

payment_service_get_payment_history_paginated(conn, d, warehouse_id, limit, offset, faults) ==
    get_payment_history_paginated(conn, d, warehouse_id, limit, offset, faults)

(***************************************************************************)
(* SpannerConnector.execute_query.  A query is a record naming its SQL     *)
(* statement, the call site that issues it (with the loop iteration) and   *)
(* the rows the database returns for it when the statement runs.  args are *)
(* the values bound to the statement where one call site runs more than    *)
(* once in a request.  The log holds one entry per statement handed to the *)
(* database.                                                               *)
(***************************************************************************)
Query(stmt, site, iter, rows) ==
    [stmt |-> stmt, args |-> <<>>, site |-> site, iter |-> iter, rows |-> rows]

\* execute_query(query, params): the statement with its bound values.
Bind(q, args) == [q EXCEPT !.args = args]

\* snapshot.execute_sql: the statement is handed to the database once.
\* A connector that tries a failed statement a second time (what C9 excludes).
IssueWithRetry(q, ok) ==
    IF ok
    THEN <<[stmt |-> q.stmt, args |-> q.args, site |-> q.site, iter |-> q.iter, ok |-> TRUE]>>
    ELSE <<[stmt |-> q.stmt, args |-> q.args, site |-> q.site, iter |-> q.iter, ok |-> FALSE],
           [stmt |-> q.stmt, args |-> q.args, site |-> q.site, iter |-> q.iter, ok |-> FALSE]>>

Issue(q, ok) ==
    <<[stmt |-> q.stmt, args |-> q.args, site |-> q.site, iter |-> q.iter, ok |-> ok]>>

\* An execute_query that would answer a failed statement with a marker row
\* instead of [] (what C19 excludes).
execute_query_marking(conn, q, failed) ==
    IF conn.database = None \/ failed
    THEN [rows |-> <<[failed |-> TRUE, next_order_id |-> 0]>>,
          log |-> IF conn.database = None THEN <<>> ELSE Issue(q, FALSE)]
    ELSE [rows |-> q.rows, log |-> Issue(q, TRUE)]

\* [] without a database connection, [] when the statement fails, else the rows.
execute_query(conn, q, failed) ==
    IF conn.database = None
    THEN [rows |-> <<>>, log |-> <<>>]
    ELSE IF failed
         THEN [rows |-> <<>>, log |-> Issue(q, FALSE)]
         ELSE [rows |-> q.rows, log |-> Issue(q, TRUE)]

RECURSIVE Concat(_)
Concat(ss) == IF ss = <<>> THEN <<>> ELSE Head(ss) \o Concat(Tail(ss))

\* The sets of at most k failing statement positions among n statements.
RECURSIVE FaultSetsUpTo(_, _)
FaultSetsUpTo(n, k) ==
    IF k = 0 THEN {{}}
    ELSE LET smaller == FaultSetsUpTo(n, k - 1)
         IN  smaller \cup {F \cup {x} : F \in smaller, x \in 1..n}

FaultSets(n) == FaultSetsUpTo(n, MaxFaults)

\* One try block around all the statements: none is run after the first that
\* fails (what C24 excludes).
RunAllStopping(conn, qs, faults, base) ==
    [j \in DOMAIN qs |->
        IF \E i \in 1..(j - 1) : (base + i) \in faults
        THEN [rows |-> <<>>, log |-> <<>>]
        ELSE execute_query(conn, qs[j], (base + j) \in faults)]

\* [j |-> execute_query(qs[j])], the j-th statement at position base + j.
RunAll(conn, qs, faults, base) ==
    [j \in DOMAIN qs |-> execute_query(conn, qs[j], (base + j) \in faults)]

LogOf(ans) == Concat([j \in DOMAIN ans |-> ans[j].log])

\* The members of a set of integers in ascending order.
Ascending(S) ==
    [k \in 1..Cardinality(S) |-> CHOOSE x \in S : Cardinality({v \in S : v < x}) = k - 1]

\* SELECT COUNT(*) as count FROM <table>: one row.
CountRows(n) == <<[count |-> n]>>

(***************************************************************************)
(* SpannerConnector.test_connection: "SELECT 1 as test" at position        *)
(* base + 1, then the warehouse count at base + 2 inside its own try.      *)
(***************************************************************************)
test_connection(conn, faults, base) ==
    IF conn.database = None
    THEN [result |-> FALSE, log |-> <<>>]
    ELSE IF (base + 1) \in faults
    THEN [result |-> FALSE,
          log |-> <<[stmt |-> "SELECT 1 as test", args |-> <<>>, site |-> "spanner_connector.py:87",
                     iter |-> 0, ok |-> FALSE]>>]
    ELSE [result |-> TRUE,
          log |-> <<[stmt |-> "SELECT 1 as test", args |-> <<>>, site |-> "spanner_connector.py:87",
                     iter |-> 0, ok |-> TRUE],
                    [stmt |-> "SELECT COUNT(*) as warehouse_count FROM warehouse",
                     args |-> <<>>, site |-> "spanner_connector.py:98", iter |-> 0,
                     ok |-> (base + 2) \notin faults]>>]

\* AnalyticsService.get_warehouses: positions base + 1 .. base + 3.
WarehousesAfter(tc, q) ==
    IF ~tc.result
    THEN [result |-> <<>>, log |-> tc.log]
    ELSE [result |-> q.rows, log |-> tc.log \o q.log]

get_warehouses(conn, d, faults, base) ==
    WarehousesAfter(
        test_connection(conn, faults, base),
        execute_query(conn,
            Query("SELECT w_id, w_name, w_city, w_state FROM warehouse ORDER BY w_id",
                  "analytics_service.py:397", 0, Ascending(d.warehouse)),
            (base + 3) \in faults))

(***************************************************************************)
(* AnalyticsService.get_dashboard_metrics: test_connection (positions 1    *)
(* and 2), then twelve metric queries (positions 3 .. 14), each in its own *)
(* try block.  Amounts are counted as 1 per row; no order of the model has *)
(* a carrier.                                                              *)
(***************************************************************************)
_get_default_metrics ==
    [total_warehouses |-> 0, total_customers |-> 0, total_orders |-> 0, total_items |-> 0,
     new_orders |-> 0, low_stock_items |-> 0, orders_last_24h |-> 0, avg_order_value |-> 0,
     total_revenue |-> 0, avg_customer_orders |-> 0, total_stock_value |-> 0,
     total_payments |-> 0, total_payment_amount |-> 0, avg_payment_amount |-> 0,
     customers_with_orders |-> 0, customer_activity_rate |-> 0]

CustomersWithOrders(d) ==
    {x \in d.customer : \E k \in DOMAIN d.orders :
        d.orders[k].w = x[1] /\ d.orders[k].d = x[2] /\ d.orders[k].c = x[3]}

MetricQueries(d) ==
    << Query("SELECT COUNT(*) as count FROM warehouse", "analytics_service.py:116", 0,
             CountRows(Cardinality(d.warehouse))),
       Query("SELECT COUNT(*) as count FROM customer", "analytics_service.py:127", 0,
             CountRows(Cardinality(d.customer))),
       Query("SELECT COUNT(*) as count FROM order_table", "analytics_service.py:138", 0,
             CountRows(Len(d.orders))),
       Query("SELECT COUNT(*) as count FROM item", "analytics_service.py:149", 0,
             CountRows(Cardinality(d.item))),
       Query("SELECT COUNT(*) as count FROM order_table WHERE o_carrier_id IS NULL",
             "analytics_service.py:161", 0, CountRows(Len(d.orders))),
       Query("SELECT COUNT(*) as count FROM stock WHERE s_quantity < 50",
             "analytics_service.py:172", 0,
             CountRows(Cardinality({k \in DOMAIN d.stock : d.stock[k].qty < 50}))),
       Query("SELECT COUNT(*) as count FROM order_table", "analytics_service.py:183", 0,
             CountRows(Len(d.orders))),
       Query("SELECT COALESCE(SUM(ol.ol_amount), 0) as total_order_value",
             "analytics_service.py:195", 0,
             <<[total_order_value |->
                   Len(SelectSeq(d.order_line, LAMBDA ol : \E k \in DOMAIN d.orders :
                       /\ d.orders[k].o_id = ol.o_id
                       /\ d.orders[k].w = ol.w
                       /\ d.orders[k].d = ol.d))]>>),
       Query("SELECT COUNT(*) as order_count FROM order_table", "analytics_service.py:206", 0,
             <<[order_count |-> Len(d.orders)]>>),
       Query("SELECT COALESCE(SUM(s.s_quantity * i.i_price), 0) as total_stock_value",
             "analytics_service.py:238", 0,
             <<[total_stock_value |->
                   Cardinality({k \in DOMAIN d.stock : d.stock[k].i \in d.item})]>>),
       Query("SELECT COUNT(*) as payment_count, COALESCE(SUM(h_amount), 0) as total_payments",
             "analytics_service.py:254", 0,
             <<[payment_count |-> Len(d.history), total_payments |-> Len(d.history)]>>),
       Query("SELECT COUNT(DISTINCT c.c_id) as active_customers", "analytics_service.py:286", 0,
             <<[active_customers |-> Cardinality({x[3] : x \in d.customer}),
                customers_with_orders |->
                    Cardinality({x[3] : x \in CustomersWithOrders(d)})]>>) >>

\* result[0][column] if result and len(result) > 0 else 0
FirstOr0(ans, column) == IF ans.rows # <<>> THEN ans.rows[1][column] ELSE 0

\* Quotients are kept as integer quotients (round(x / y, 2) in the code).
Ratio(x, y) == IF y > 0 THEN x \div y ELSE 0

MetricsOf(ans) ==
    [total_warehouses |-> FirstOr0(ans[1], "count"),
     total_customers |-> FirstOr0(ans[2], "count"),
     total_orders |-> FirstOr0(ans[3], "count"),
     total_items |-> FirstOr0(ans[4], "count"),
     new_orders |-> FirstOr0(ans[5], "count"),
     low_stock_items |-> FirstOr0(ans[6], "count"),
     orders_last_24h |-> FirstOr0(ans[7], "count"),
     avg_order_value |-> Ratio(FirstOr0(ans[8], "total_order_value"),
                               FirstOr0(ans[9], "order_count")),
     total_revenue |-> FirstOr0(ans[8], "total_order_value"),
     avg_customer_orders |-> Ratio(FirstOr0(ans[3], "count"), FirstOr0(ans[2], "count")),
     total_stock_value |-> FirstOr0(ans[10], "total_stock_value"),
     total_payments |-> FirstOr0(ans[11], "payment_count"),
     total_payment_amount |-> FirstOr0(ans[11], "total_payments"),
     avg_payment_amount |-> Ratio(FirstOr0(ans[11], "total_payments"),
                                  FirstOr0(ans[11], "payment_count")),
     customers_with_orders |-> FirstOr0(ans[12], "customers_with_orders"),
     customer_activity_rate |-> Ratio(100 * FirstOr0(ans[12], "customers_with_orders"),
                                      FirstOr0(ans[12], "active_customers"))]

\* A get_dashboard_metrics that would run the metric queries before looking at
\* the connection test (what C23 excludes).
DashboardAfterQuerying(conn, tc, ans) ==
    IF ~tc.result
    THEN [result |-> [error |-> "Database connection failed",
                      metrics |-> _get_default_metrics],
          log |-> tc.log \o LogOf(ans)]
    ELSE [result |-> [success |-> TRUE, provider |-> conn.provider_name,
                      metrics |-> MetricsOf(ans)],
          log |-> tc.log \o LogOf(ans)]

DashboardAfter(conn, tc, ans) ==
    IF ~tc.result
    THEN [result |-> [error |-> "Database connection failed",
                      metrics |-> _get_default_metrics],
          log |-> tc.log]
    ELSE [result |-> [success |-> TRUE, provider |-> conn.provider_name,
                      metrics |-> MetricsOf(ans)],
          log |-> tc.log \o LogOf(ans)]

get_dashboard_metrics(conn, d, faults) ==
    DashboardAfter(conn, test_connection(conn, faults, 0),
                   RunAll(conn, MetricQueries(d), faults, 2))

\* The method on a service whose connector attribute is self_connector: None
\* when the service was built without a connector and creating one failed.
service_get_dashboard_metrics(self_connector, d, faults) ==
    IF self_connector = None
    THEN [result |-> [error |-> "No database connector available",
                      metrics |-> _get_default_metrics],
          log |-> <<>>]
    ELSE get_dashboard_metrics(Val(self_connector), d, faults)

(***************************************************************************)
(* OrderService.execute_new_order.  items is None or Some(list of item     *)
(* dicts).  The queries are issued in order until one returns no row.      *)
(***************************************************************************)
Exists(present, row) == IF present THEN <<row>> ELSE <<>>

\* An order entry that would look up the warehouse before the customer (what
\* C18 excludes).
NewOrderQueriesWarehouseFirst(d, w, dist, c, items) ==
    << Query("warehouse_query", "order_service.py:60", 0,
             Exists(w \in d.warehouse, [w_id |-> w])),
       Query("customer_query", "order_service.py:45", 0,
             Exists(<<w, dist, c>> \in d.customer, [c_id |-> c])),
       Query("district_query", "order_service.py:70", 0,
             Exists(<<w, dist>> \in d.district, [d_id |-> dist])),
       Query("order_id_query", "order_service.py:86", 0,
             <<[next_order_id |-> NextOrderId(d, w, dist)]>>) >>
    \o [j \in 1..(2 * Len(items)) |->
          IF j % 2 = 1
          THEN Bind(Query("item_query", "order_service.py:109", (j + 1) \div 2,
                          Exists(items[(j + 1) \div 2].item_id \in d.item,
                                 [i_id |-> items[(j + 1) \div 2].item_id])),
                    <<items[(j + 1) \div 2].item_id>>)
          ELSE Bind(Query("stock_query", "order_service.py:123", (j + 1) \div 2,
                          SelectSeq(d.stock,
                              LAMBDA r : r.i = items[(j + 1) \div 2].item_id /\ r.w = w)),
                    <<items[(j + 1) \div 2].item_id, w>>)]

NewOrderQueries(d, w, dist, c, items) ==
    << Query("customer_query", "order_service.py:45", 0,
             Exists(<<w, dist, c>> \in d.customer, [c_id |-> c])),
       Query("warehouse_query", "order_service.py:60", 0,
             Exists(w \in d.warehouse, [w_id |-> w])),
       Query("district_query", "order_service.py:70", 0,
             Exists(<<w, dist>> \in d.district, [d_id |-> dist])),
       Query("order_id_query", "order_service.py:86", 0,
             <<[next_order_id |-> NextOrderId(d, w, dist)]>>) >>
    \o [j \in 1..(2 * Len(items)) |->
          IF j % 2 = 1
          THEN Bind(Query("item_query", "order_service.py:109", (j + 1) \div 2,
                          Exists(items[(j + 1) \div 2].item_id \in d.item,
                                 [i_id |-> items[(j + 1) \div 2].item_id])),
                    <<items[(j + 1) \div 2].item_id>>)
          ELSE Bind(Query("stock_query", "order_service.py:123", (j + 1) \div 2,
                          SelectSeq(d.stock,
                              LAMBDA r : r.i = items[(j + 1) \div 2].item_id /\ r.w = w)),
                    <<items[(j + 1) \div 2].item_id, w>>)]

\* The error of the first statement that returned no row.
NewOrderError(q, w, items) ==
    CASE q.stmt = "customer_query" -> <<"Customer not found">>
      [] q.stmt = "warehouse_query" -> <<"Warehouse not found">>
      [] q.stmt = "district_query" -> <<"District not found">>
      [] q.stmt = "order_id_query" -> <<"Failed to get next order ID">>
      [] q.stmt = "item_query" -> <<"Item ", items[q.iter].item_id, " not found">>
      [] OTHER -> <<"Stock not found for item ", items[q.iter].item_id, " in warehouse ", w>>

\* quantity = item.get("quantity", 1)
Quantity(item) == IF "quantity" \in DOMAIN item THEN item.quantity ELSE 1

\* total_amount: the sum of i_price * quantity over the items, every item
\* priced 1, with no tax and no discount.
RECURSIVE TotalAmount(_)
TotalAmount(items) ==
    IF items = <<>> THEN 0 ELSE Quantity(Head(items)) + TotalAmount(Tail(items))

\* An order entry that would refuse a quantity that is not positive or exceeds
\* the stock row's s_quantity (what C17 excludes).
NewOrderAfterStockCheck(qs, ans, w, items) ==
    LET empty == {j \in DOMAIN qs : ans[j].rows = <<>>}
        last == IF empty = {} THEN Len(qs)
                ELSE CHOOSE j \in empty : \A m \in empty : j <= m
    IN  [result |-> IF empty # {}
                    THEN Failure(NewOrderError(qs[last], w, items))
                    ELSE IF \E k \in DOMAIN items :
                               \/ Quantity(items[k]) <= 0
                               \/ Quantity(items[k]) > ans[4 + 2 * k].rows[1].qty
                    THEN Failure(<<"Insufficient stock">>)
                    ELSE [success |-> TRUE, order_id |-> ans[4].rows[1].next_order_id,
                          total_amount |-> TotalAmount(items),
                          items_count |-> Len(items),
                          message |-> "Order created successfully (simulated - no actual database changes)"],
         log |-> Concat([j \in 1..last |-> ans[j].log])]

\* The answers up to the first statement that returned no row.
NewOrderAfter(qs, ans, w, items) ==
    LET empty == {j \in DOMAIN qs : ans[j].rows = <<>>}
        last == IF empty = {} THEN Len(qs)
                ELSE CHOOSE j \in empty : \A m \in empty : j <= m
    IN  [result |-> IF empty # {}
                    THEN Failure(NewOrderError(qs[last], w, items))
                    ELSE [success |-> TRUE, order_id |-> ans[4].rows[1].next_order_id,
                          total_amount |-> TotalAmount(items),
                          items_count |-> Len(items),
                          message |-> "Order created successfully (simulated - no actual database changes)"],
         log |-> Concat([j \in 1..last |-> ans[j].log])]

execute_new_order(conn, d, w, dist, c, items, faults) ==
    IF items = None
    THEN [result |-> Failure("object of type 'NoneType' has no len()"), log |-> <<>>]
    ELSE IF Val(items) = <<>>
    THEN [result |-> Failure("No items provided"), log |-> <<>>]
    ELSE NewOrderAfter(NewOrderQueries(d, w, dist, c, Val(items)),
                       RunAll(conn, NewOrderQueries(d, w, dist, c, Val(items)), faults, 0),
                       w, Val(items))

(***************************************************************************)
(* ACIDTests.  Every test reads through execute_query; base is the number  *)
(* of statement positions used by the tests run before it in this request. *)
(* The clock fields (elapsed_time, timestamp, test_session_id) are left    *)
(* out of the results.                                                     *)
(***************************************************************************)
AllAnswered(ans) == \A j \in DOMAIN ans : ans[j].rows # <<>>

SetupQueries(d) ==
    << Query("SELECT COUNT(*) as count FROM warehouse", "acid_tests.py:36", 1,
             CountRows(Cardinality(d.warehouse))),
       Query("SELECT COUNT(*) as count FROM district", "acid_tests.py:36", 2,
             CountRows(Cardinality(d.district))),
       Query("SELECT COUNT(*) as count FROM customer", "acid_tests.py:36", 3,
             CountRows(Cardinality(d.customer))),
       Query("SELECT COUNT(*) as count FROM order_table", "acid_tests.py:36", 4,
             CountRows(Len(d.orders))),
       Query("SELECT COUNT(*) as count FROM order_line", "acid_tests.py:36", 5,
             CountRows(Len(d.order_line))) >>

SetupAfter(ans) ==
    [result |-> ~(Cardinality({j \in DOMAIN ans : ans[j].rows # <<>>}) < 3),
     log |-> LogOf(ans)]

setup_test_environment(conn, d, faults, base) ==
    SetupAfter(RunAll(conn, SetupQueries(d), faults, base))

AtomicityAfter(conn, setup, ans) ==
    IF ~setup.result
    THEN [result |-> [test |-> "Atomicity", passed |-> FALSE, provider |-> conn.provider_name,
                      error |-> "Failed to setup test environment"],
          log |-> setup.log]
    ELSE [result |-> [test |-> "Atomicity", passed |-> AllAnswered(ans),
                      provider |-> conn.provider_name,
                      details |-> "Tested consistent reads across multiple tables"],
          log |-> setup.log \o LogOf(ans)]

test_atomicity(conn, d, faults, base) ==
    AtomicityAfter(conn, setup_test_environment(conn, d, faults, base),
        RunAll(conn,
               << Query("SELECT COUNT(*) as count FROM warehouse", "acid_tests.py:87", 0,
                        CountRows(Cardinality(d.warehouse))),
                  Query("SELECT COUNT(*) as count FROM customer", "acid_tests.py:88", 0,
                        CountRows(Cardinality(d.customer))),
                  Query("SELECT COUNT(*) as count FROM order_table", "acid_tests.py:89", 0,
                        CountRows(Len(d.orders))) >>,
               faults, base + 5))

\* A consistency test that would pass only when every check passes (what C28
\* excludes).
ConsistencyAfterAllChecks(conn, first, checks) ==
    [result |-> [test |-> "Consistency",
                 passed |-> /\ first.rows # <<>>
                            /\ \A k \in DOMAIN checks : checks[k].rows # <<>>,
                 provider |-> conn.provider_name,
                 details |-> <<"warehouse checks passed",
                               Cardinality({k \in DOMAIN checks : checks[k].rows # <<>>})>>],
     log |-> first.log \o LogOf(checks)]

\* passed_checks >= test_count * 0.8
ConsistencyAfter(conn, first, checks) ==
    [result |-> [test |-> "Consistency",
                 passed |-> /\ first.rows # <<>>
                            /\ 5 * Cardinality({k \in DOMAIN checks : checks[k].rows # <<>>})
                                  >= 4 * Len(checks),
                 provider |-> conn.provider_name,
                 details |-> <<"warehouse checks passed",
                               Cardinality({k \in DOMAIN checks : checks[k].rows # <<>>})>>],
     log |-> first.log \o LogOf(checks)]

\* for w_id in warehouse_ids[:test_count], test_count = min(5, len(warehouse_ids))
WarehouseChecks(d, district_warehouses) ==
    [k \in 1..Min(5, Len(district_warehouses)) |->
        Bind(Query("SELECT w_id FROM warehouse WHERE w_id = {w_id}", "acid_tests.py:155", k,
                   Exists(district_warehouses[k] \in d.warehouse,
                          [w_id |-> district_warehouses[k]])),
             <<district_warehouses[k]>>)]

ConsistencyChecks(conn, d, first, faults, base) ==
    ConsistencyAfter(conn, first,
                     RunAll(conn, WarehouseChecks(d, first.rows), faults, base + 1))

test_consistency(conn, d, faults, base) ==
    ConsistencyChecks(conn, d,
        execute_query(conn,
            Query("SELECT DISTINCT d_w_id FROM district", "acid_tests.py:144", 0,
                  Ascending({x[1] : x \in d.district})),
            (base + 1) \in faults),
        faults, base)

IsolationAfter(conn, reads) ==
    [result |-> [test |-> "Isolation",
                 passed |-> /\ AllAnswered(reads)
                            /\ \A j, k \in DOMAIN reads : reads[j].rows = reads[k].rows,
                 provider |-> conn.provider_name,
                 details |-> "Tested consistent reads under concurrent access"],
     log |-> LogOf(reads)]

test_isolation(conn, d, faults, base) ==
    IsolationAfter(conn,
        RunAll(conn,
               << Query("SELECT COUNT(*) as count FROM customer", "acid_tests.py:212", 0,
                        CountRows(Cardinality(d.customer))),
                  Query("SELECT COUNT(*) as count FROM customer", "acid_tests.py:213", 0,
                        CountRows(Cardinality(d.customer))),
                  Query("SELECT COUNT(*) as count FROM customer", "acid_tests.py:214", 0,
                        CountRows(Cardinality(d.customer))) >>,
               faults, base))

DurabilityAfter(conn, ans) ==
    [result |-> [test |-> "Durability", passed |-> AllAnswered(ans),
                 provider |-> conn.provider_name,
                 details |-> "Tested data persistence across operations"],
     log |-> LogOf(ans)]

test_durability(conn, d, faults, base) ==
    DurabilityAfter(conn,
        RunAll(conn,
               << Query("SELECT COUNT(*) as count FROM warehouse", "acid_tests.py:266", 0,
                        CountRows(Cardinality(d.warehouse))),
                  Query("SELECT COUNT(*) as count FROM customer", "acid_tests.py:267", 0,
                        CountRows(Cardinality(d.customer))) >>,
               faults, base))

\* A suite that would stop reporting at the first test that fails (what C27
\* excludes).
AllTestsUntilFailure(conn, runs) ==
    LET failed == {j \in DOMAIN runs : ~runs[j].result.passed}
        last == IF failed = {} THEN Len(runs)
                ELSE CHOOSE j \in failed : \A m \in failed : j <= m
    IN  [result |-> [provider |-> conn.provider_name,
                     test_suite |-> "ACID Compliance (Real Database Tests)",
                     tests |-> [j \in 1..last |-> runs[j].result],
                     summary |->
                         [total_tests |-> last,
                          passed_tests |-> Cardinality((1..last) \ failed),
                          failed_tests |-> Cardinality((1..last) \cap failed),
                          success_rate |-> (Cardinality((1..last) \ failed) * 100) \div last]],
         log |-> Concat([j \in 1..last |-> runs[j].log])]

AllTestsAfter(conn, runs) ==
    [result |-> [provider |-> conn.provider_name,
                 test_suite |-> "ACID Compliance (Real Database Tests)",
                 tests |-> [j \in DOMAIN runs |-> runs[j].result],
                 summary |->
                     [total_tests |-> Len(runs),
                      passed_tests |->
                          Cardinality({j \in DOMAIN runs : runs[j].result.passed}),
                      failed_tests |->
                          Len(runs) - Cardinality({j \in DOMAIN runs : runs[j].result.passed}),
                      success_rate |->
                          (Cardinality({j \in DOMAIN runs : runs[j].result.passed}) * 100)
                              \div Len(runs)]],
     log |-> Concat([j \in DOMAIN runs |-> runs[j].log])]

run_all_tests(conn, d, faults) ==
    AllTestsAfter(conn, << test_atomicity(conn, d, faults, 0),
                           test_consistency(conn, d, faults, 8),
                           test_isolation(conn, d, faults, 8 + 6),
                           test_durability(conn, d, faults, 8 + 6 + 3) >>)

(***************************************************************************)
(* The page handlers /orders, /inventory and /payments.                    *)
(***************************************************************************)
EmptyDict == <<>>

\* The pagination dict built at the end of the try block of each page handler.
Pagination(page, limit, offset, result) ==
    LET total_count == result.total_count
        total_pages == IF total_count > 0
                       THEN PyFloorDiv(total_count + limit - 1, limit)
                       ELSE 1
    IN  [page |-> page, limit |-> limit, total_count |-> total_count,
         total_pages |-> total_pages,
         has_prev |-> result.has_prev, has_next |-> result.has_next,
         prev_page |-> IF page > 1 THEN Some(page - 1) ELSE None,
         next_page |-> IF page < total_pages THEN Some(page + 1) ELSE None,
         start_item |-> IF total_count > 0 THEN offset + 1 ELSE 0,
         end_item |-> Min(offset + limit, total_count)]

\* total_count > 0 with limit = 0 divides by zero in the total_pages line.
PaginationRaises(limit, result) == result.total_count > 0 /\ limit = 0

\* The pagination dict of the except block of orders() and payments().
DefaultPagination(limit) ==
    [page |-> 1, limit |-> limit, total_count |-> 0, total_pages |-> 1,
     has_prev |-> FALSE, has_next |-> FALSE, prev_page |-> None, next_page |-> None,
     start_item |-> 0, end_item |-> 0]

PageResponse(template, rows, warehouses, pagination, flashed) ==
    [kind |-> "page", status |-> 200, template |-> template, rows |-> rows,
     warehouses |-> warehouses, pagination |-> pagination, flashed |-> flashed]

\* boom: a statement of the try block other than the modelled calls raises
\* (render_template, for one).
orders(r, result, warehouses, boom) ==
    LET limit == OrElse(r.limit, DefaultOrdersLimit)
        page == OrElse(r.page, DefaultPage)
        offset == (page - 1) * limit
    IN  IF boom \/ PaginationRaises(limit, result)
        THEN PageResponse("orders.html", <<>>, <<>>, DefaultPagination(limit), TRUE)
        ELSE PageResponse("orders.html", result.rows, warehouses,
                          Pagination(page, limit, offset, result), FALSE)

inventory(r, result, warehouses, boom) ==
    LET limit == OrElse(r.limit, DefaultInventoryLimit)
        page == OrElse(r.page, DefaultPage)
        offset == (page - 1) * limit
    IN  IF boom \/ PaginationRaises(limit, result)
        THEN PageResponse("inventory.html", <<>>, <<>>, EmptyDict, TRUE)
        ELSE PageResponse("inventory.html", result.rows, warehouses,
                          Pagination(page, limit, offset, result), FALSE)

payments(r, result, warehouses, boom) ==
    LET limit == OrElse(r.limit, DefaultPaymentsLimit)
        page == OrElse(r.page, DefaultPage)
        offset == (page - 1) * limit
    IN  IF boom \/ PaginationRaises(limit, result)
        THEN PageResponse("payments.html", <<>>, <<>>, DefaultPagination(limit), TRUE)
        ELSE PageResponse("payments.html", result.rows, warehouses,
                          Pagination(page, limit, offset, result), FALSE)

\* The request parameters page, limit and warehouse_id; each may be absent.
OptPages == {None} \cup {Some(p) : p \in (0 - 1)..MaxPage}
OptLimits == {None} \cup {Some(l) : l \in (0 - 1)..MaxLimit}
OptWIds == {None} \cup {Some(w) : w \in WIds}

PageRequests(route) ==
    [route : {route}, page : OptPages, limit : OptLimits, warehouse_id : OptWIds]

OffsetOf(r, defaultLimit) ==
    (OrElse(r.page, DefaultPage) - 1) * OrElse(r.limit, defaultLimit)

NoRequest == [route |-> "none"]
NoResult == [total_count |-> 0]
NoResponse == [kind |-> "none"]

\* The module state a request finds: what C7 and C10 compare against.
Snapshot(d, conn, s) == [db |-> d, connector |-> conn, singletons |-> s]

HandleOrders ==
    /\ pc = "idle"
    /\ \E r \in PageRequests("orders"), faults \in FaultSets(5), boom \in BOOLEAN :
          \E result \in {order_service_get_orders(connector, db, r.warehouse_id,
                             OrElse(r.limit, DefaultOrdersLimit),
                             OffsetOf(r, DefaultOrdersLimit), faults)},
             wh \in {get_warehouses(connector, db, faults, 2)} :
              /\ req' = r
              /\ got' = result
              /\ resp' = orders(r, result, wh.result, boom)
              /\ raised' = (boom \/ PaginationRaises(OrElse(r.limit, DefaultOrdersLimit), result))
              /\ qlog' = PaginatedLog(connector, "spanner_connector.py:437",
                                      "spanner_connector.py:452", OrElse(r.limit, DefaultOrdersLimit),
                                      OffsetOf(r, DefaultOrdersLimit), faults)
                         \o wh.log
    /\ pc' = "responded"
    /\ UNCHANGED <<db, connector, singletons, before, again, threads>>

HandleInventory ==
    /\ pc = "idle"
    /\ \E r \in PageRequests("inventory"), faults \in FaultSets(5), boom \in BOOLEAN :
          \E result \in {inventory_service_get_inventory_paginated(connector, db,
                             r.warehouse_id, OrElse(r.limit, DefaultInventoryLimit),
                             OffsetOf(r, DefaultInventoryLimit), faults)},
             wh \in {get_warehouses(connector, db, faults, 2)} :
              /\ req' = r
              /\ got' = result
              /\ resp' = inventory(r, result, wh.result, boom)
              /\ raised' = (boom \/ PaginationRaises(OrElse(r.limit, DefaultInventoryLimit), result))
              /\ qlog' = PaginatedLog(connector, "spanner_connector.py:679",
                                      "spanner_connector.py:694", OrElse(r.limit, DefaultInventoryLimit),
                                      OffsetOf(r, DefaultInventoryLimit), faults)
                         \o wh.log
    /\ pc' = "responded"
    /\ UNCHANGED <<db, connector, singletons, before, again, threads>>

HandlePayments ==
    /\ pc = "idle"
    /\ \E r \in PageRequests("payments"), faults \in FaultSets(5), boom \in BOOLEAN :
          \E result \in {payment_service_get_payment_history_paginated(connector, db,
                             r.warehouse_id, OrElse(r.limit, DefaultPaymentsLimit),
                             OffsetOf(r, DefaultPaymentsLimit), faults)},
             wh \in {get_warehouses(connector, db, faults, 2)} :
              /\ req' = r
              /\ got' = result
              /\ resp' = payments(r, result, wh.result, boom)
              /\ raised' = (boom \/ PaginationRaises(OrElse(r.limit, DefaultPaymentsLimit), result))
              /\ qlog' = PaginatedLog(connector, "spanner_connector.py:317",
                                      "spanner_connector.py:332", OrElse(r.limit, DefaultPaymentsLimit),
                                      OffsetOf(r, DefaultPaymentsLimit), faults)
                         \o wh.log
    /\ pc' = "responded"
    /\ UNCHANGED <<db, connector, singletons, before, again, threads>>

\* The response has been sent; nothing of the request is kept.
Done ==
    /\ pc \in {"responded", "repeated"}
    /\ pc' = "idle"
    /\ req' = NoRequest
    /\ got' = NoResult
    /\ resp' = NoResponse
    /\ qlog' = <<>>
    /\ raised' = FALSE
    /\ again' = NoResult
    /\ UNCHANGED <<db, connector, singletons, before, threads>>

(***************************************************************************)
(* The POST endpoints.  A request body is malformed (get_json raises), the *)
(* JSON value null (get_json returns None), or a JSON object holding the   *)
(* keys in present.  Absent keys carry a fixed value that is never read.   *)
(***************************************************************************)
ItemLists ==
    {None} \cup {Some(l) : l \in UNION {[1..n -> [item_id : ItemIds]] : n \in 0..MaxItems}}

JsonBodies(fields) ==
    {b \in [json : {"malformed", "null", "object"}, present : SUBSET {fields[j] : j \in DOMAIN fields},
            warehouse_id : WIds, items : ItemLists] :
        /\ b.json # "object" => b.present = {}
        /\ "warehouse_id" \notin b.present => b.warehouse_id = 1
        /\ "items" \notin b.present => b.items = None}

JsonResponse(status, body) == [kind |-> "json", status |-> status, body |-> body]

\* What a handler did: its response, the service result it obtained, the
\* statements it issued, and whether its except block ran.
Handled(response, result, log) ==
    [resp |-> response, got |-> result, log |-> log, raised |-> FALSE]

Caught(response, result, log) ==
    [resp |-> response, got |-> result, log |-> log, raised |-> TRUE]

\* for field in required_fields: if field not in data: return 400
MissingFields(fields, data) == {j \in DOMAIN fields : fields[j] \notin data.present}

FirstMissing(fields, data) ==
    fields[CHOOSE j \in MissingFields(fields, data) :
              \A k \in MissingFields(fields, data) : j <= k]

MissingFieldResponse(fields, data) ==
    JsonResponse(400, [error |-> <<"Missing required field: ", FirstMissing(fields, data)>>])

\* What the client would get if the exception left the handler: Flask's
\* errorhandler(500) page (what C8 excludes).
UncaughtError(msg) ==
    [kind |-> "page", status |-> 500, template |-> "500.html", flashed |-> FALSE]

\* except Exception as e: return jsonify({"error": str(e)}), 500
ErrorResponse(msg) == JsonResponse(500, [error |-> msg])

NewOrderFields == <<"warehouse_id", "district_id", "customer_id", "items">>
PaymentFields == <<"warehouse_id", "district_id", "customer_id", "amount">>
DeliveryFields == <<"warehouse_id", "carrier_id">>

api_new_order(conn, d, data, faults) ==
    IF data.json = "malformed"
    THEN Caught(ErrorResponse("400 Bad Request"), NoResult, <<>>)
    ELSE IF data.json = "null"
    THEN Caught(ErrorResponse("argument of type 'NoneType' is not iterable"), NoResult, <<>>)
    ELSE IF MissingFields(NewOrderFields, data) # {}
    THEN Handled(MissingFieldResponse(NewOrderFields, data), NoResult, <<>>)
    ELSE IF data.items = None
    THEN Caught(ErrorResponse("object of type 'NoneType' has no len()"), NoResult, <<>>)
    ELSE LET r == execute_new_order(conn, d, data.warehouse_id, 1, 1, data.items, faults)
         IN  Handled(JsonResponse(200, r.result), r.result, r.log)

api_test_multi_region_create_order(conn, d, data, faults) ==
    IF data.json = "malformed"
    THEN Caught(ErrorResponse("400 Bad Request"), NoResult, <<>>)
    ELSE IF data.json = "null"
    THEN Caught(ErrorResponse("argument of type 'NoneType' is not iterable"), NoResult, <<>>)
    ELSE IF MissingFields(NewOrderFields, data) # {}
    THEN Handled(MissingFieldResponse(NewOrderFields, data), NoResult, <<>>)
    ELSE IF data.items = None
    THEN Caught(ErrorResponse("object of type 'NoneType' has no len()"), NoResult, <<>>)
    ELSE LET r == execute_new_order(conn, d, data.warehouse_id, 1, 1, data.items, faults)
         IN  IF r.result.success
             THEN Handled(JsonResponse(200,
                              [success |-> TRUE, order_id |-> r.result.order_id,
                               items_count |-> r.result.items_count,
                               message |-> r.result.message,
                               executed_in_region |-> "default",
                               provider |-> conn.provider_name]),
                          r.result, r.log)
             ELSE Handled(JsonResponse(200, r.result), r.result, r.log)

\* PaymentService.execute_payment: the payment is processed or reported failed.
execute_payment(outcome) ==
    IF outcome = "success" THEN [success |-> TRUE] ELSE Failure("Payment failed")

api_payment(data, outcome) ==
    IF data.json = "malformed"
    THEN Caught(ErrorResponse("400 Bad Request"), NoResult, <<>>)
    ELSE IF data.json = "null"
    THEN Caught(ErrorResponse("argument of type 'NoneType' is not iterable"), NoResult, <<>>)
    ELSE IF MissingFields(PaymentFields, data) # {}
    THEN Handled(MissingFieldResponse(PaymentFields, data), NoResult, <<>>)
    ELSE LET result == execute_payment(outcome)
         IN  Handled(JsonResponse(200, result), result, <<>>)

\* The connector's execute_delivery: a result dict, or an exception.
connector_execute_delivery(outcome) ==
    IF outcome = "success" THEN Some([success |-> TRUE])
    ELSE IF outcome = "failure" THEN Some(Failure("Delivery failed"))
    ELSE None

\* OrderService.execute_delivery: an exception of the connector becomes a failure dict.
execute_delivery(outcome) ==
    OrElse(connector_execute_delivery(outcome), Failure("execute_delivery raised"))

api_delivery(data, outcome) ==
    IF data.json = "malformed"
    THEN Caught(ErrorResponse("400 Bad Request"), NoResult, <<>>)
    ELSE IF data.json = "null"
    THEN Caught(ErrorResponse("argument of type 'NoneType' is not iterable"), NoResult, <<>>)
    ELSE IF MissingFields(DeliveryFields, data) # {}
    THEN Handled(MissingFieldResponse(DeliveryFields, data), NoResult, <<>>)
    ELSE LET result == execute_delivery(outcome)
         IN  Handled(JsonResponse(200, result), result, <<>>)

\* The if/elif dispatch of api_test_acid on a known test type.
acid_tests_result(conn, d, test_type, faults) ==
    IF test_type = "atomicity" THEN test_atomicity(conn, d, faults, 0)
    ELSE IF test_type = "consistency" THEN test_consistency(conn, d, faults, 0)
    ELSE IF test_type = "isolation" THEN test_isolation(conn, d, faults, 0)
    ELSE IF test_type = "durability" THEN test_durability(conn, d, faults, 0)
    ELSE run_all_tests(conn, d, faults)

api_test_acid(conn, d, test_type, faults) ==
    IF test_type \notin {"atomicity", "consistency", "isolation", "durability", "all"}
    THEN Handled(JsonResponse(400, [error |-> <<"Unknown test type: ", test_type>>]),
                 NoResult, <<>>)
    ELSE LET r == acid_tests_result(conn, d, test_type, faults)
         IN  Handled(JsonResponse(200, r.result), r.result, r.log)

(***************************************************************************)
(* The GET endpoints and the remaining pages.  boom: a statement of the    *)
(* try block other than the modelled calls raises (jsonify,                *)
(* render_template, get_provider_name).                                    *)
(***************************************************************************)
api_order_status(r, boom) ==
    IF boom
    THEN Caught(ErrorResponse("exception"), r.result, r.log)
    ELSE Handled(JsonResponse(200, r.result), r.result, r.log)

api_stock_level(r, boom) ==
    IF boom
    THEN Caught(ErrorResponse("exception"), r.result, r.log)
    ELSE Handled(JsonResponse(200, r.result), r.result, r.log)

\* A health check that would answer 'unhealthy' when the connection test
\* comes back false (what C26 excludes).
api_health_failing_closed(conn, tc, boom) ==
    IF boom
    THEN Caught(JsonResponse(500, [status |-> "unhealthy", error |-> "exception"]),
                 NoResult, tc.log)
    ELSE IF ~tc.result
    THEN Handled(JsonResponse(500, [status |-> "unhealthy", error |-> "no connection"]),
                 NoResult, tc.log)
    ELSE Handled(JsonResponse(200, [status |-> "healthy", provider |-> conn.provider_name,
                                    database_connection |-> tc.result]),
                 NoResult, tc.log)

api_health(conn, tc, boom) ==
    IF boom
    THEN Caught(JsonResponse(500, [status |-> "unhealthy", error |-> "exception"]),
                 NoResult, tc.log)
    ELSE Handled(JsonResponse(200, [status |-> "healthy", provider |-> conn.provider_name,
                                    database_connection |-> tc.result]),
                 NoResult, tc.log)

api_test_multi_region_orders_by_region(conn, q, boom) ==
    IF boom
    THEN Caught(ErrorResponse("exception"), NoResult, q.log)
    ELSE Handled(JsonResponse(200, [success |-> TRUE, warehouse_stats |-> q.rows,
                                    current_region |-> "default",
                                    provider |-> conn.provider_name]),
                 NoResult, q.log)

api_test_multi_region_recent_orders(conn, q, boom) ==
    IF boom
    THEN Caught(ErrorResponse("exception"), NoResult, q.log)
    ELSE Handled(JsonResponse(200, [success |-> TRUE, orders |-> q.rows,
                                    current_region |-> "default",
                                    provider |-> conn.provider_name]),
                 NoResult, q.log)

Redirect(endpoint, flashed) ==
    [kind |-> "redirect", status |-> 302, location |-> endpoint, flashed |-> flashed]

dashboard(conn, m, boom) ==
    IF boom
    THEN Caught([kind |-> "page", status |-> 200, template |-> "dashboard.html",
                 metrics |-> EmptyDict, provider |-> conn.provider_name, flashed |-> TRUE],
                m.result, m.log)
    ELSE Handled([kind |-> "page", status |-> 200, template |-> "dashboard.html",
                  metrics |-> m.result.metrics, provider |-> conn.provider_name,
                  flashed |-> FALSE],
                 m.result, m.log)

test_acid(conn, boom) ==
    IF boom
    THEN Caught(Redirect("dashboard", TRUE), NoResult, <<>>)
    ELSE Handled([kind |-> "page", status |-> 200, template |-> "test_acid.html",
                  provider |-> conn.provider_name, flashed |-> FALSE],
                 NoResult, <<>>)

test_multi_region(conn, boom) ==
    IF boom
    THEN Caught(Redirect("dashboard", TRUE), NoResult, <<>>)
    ELSE Handled([kind |-> "page", status |-> 200, template |-> "test_multi_region.html",
                  provider |-> conn.provider_name, current_region |-> "default",
                  flashed |-> FALSE],
                 NoResult, <<>>)

\* One handler ran: the request, the service result, the response and the
\* statements issued are recorded, nothing else changes.
Respond(r, h) ==
    /\ req' = r
    /\ got' = h.got
    /\ resp' = h.resp
    /\ qlog' = h.log
    /\ raised' = h.raised
    /\ pc' = "responded"
    /\ UNCHANGED <<db, connector, singletons, before, again, threads>>

HandleApiOrderStatus ==
    /\ pc = "idle"
    /\ \E w \in WIds, c \in 1..2, faults \in FaultSets(2), boom \in BOOLEAN :
          \E h \in {api_order_status(
                        order_service_get_order_status(connector, db, w, 1, c, faults), boom)} :
              Respond([route |-> "api_order_status", warehouse_id |-> w, customer_id |-> c], h)

HandleApiStockLevel ==
    /\ pc = "idle"
    /\ \E w \in WIds, threshold \in {None, Some(0), Some(15)},
          faults \in FaultSets(1), boom \in BOOLEAN :
          \E h \in {api_stock_level(
                        inventory_service_get_stock_level(connector, db, w, 1,
                            OrElse(threshold, DefaultThreshold), faults), boom)} :
              Respond([route |-> "api_stock_level", warehouse_id |-> w,
                       threshold |-> threshold], h)

\* A health check that re-creates the connector's client (what C10 excludes).
HandleApiHealthReconnecting ==
    /\ pc = "idle"
    /\ \E faults \in FaultSets(2), boom \in BOOLEAN :
          \E h \in {api_health(connector, test_connection(connector, faults, 0), boom)} :
              /\ req' = [route |-> "api_health"]
              /\ got' = h.got
              /\ resp' = h.resp
              /\ qlog' = h.log
              /\ raised' = h.raised
    /\ connector' = [connector EXCEPT !.client = None, !.instance = None, !.database = None]
    /\ pc' = "responded"
    /\ UNCHANGED <<db, singletons, before, again, threads>>

HandleApiHealth ==
    /\ pc = "idle"
    /\ \E faults \in FaultSets(2), boom \in BOOLEAN :
          \E h \in {api_health(connector, test_connection(connector, faults, 0), boom)} :
              Respond([route |-> "api_health"], h)

\* GROUP BY o_w_id ORDER BY order_count DESC (ties by warehouse id).
OrdersByRegionRows(d) ==
    LET ws == {d.orders[k].w : k \in DOMAIN d.orders}
    IN  [k \in 1..Cardinality(ws) |->
            CHOOSE r \in {[warehouse_id |-> w,
                           order_count |-> Cardinality({j \in DOMAIN d.orders : d.orders[j].w = w})]
                              : w \in ws} :
                Cardinality({v \in ws :
                    \/ Cardinality({j \in DOMAIN d.orders : d.orders[j].w = v}) > r.order_count
                    \/ /\ Cardinality({j \in DOMAIN d.orders : d.orders[j].w = v}) = r.order_count
                       /\ v < r.warehouse_id}) = k - 1]

\* ORDER BY o.o_entry_d DESC LIMIT @limit over the orders joined with their customer.
RecentOrdersRows(d, limit) ==
    SubSeq(Reverse(SelectSeq(d.orders, LAMBDA o : <<o.w, o.d, o.c>> \in d.customer)),
           1, Min(limit, Len(SelectSeq(d.orders, LAMBDA o : <<o.w, o.d, o.c>> \in d.customer))))

HandleApiOrdersByRegion ==
    /\ pc = "idle"
    /\ \E faults \in FaultSets(1), boom \in BOOLEAN :
          \E h \in {api_test_multi_region_orders_by_region(connector,
                        execute_query(connector,
                            Query("orders_by_region_query", "app.py:776", 0,
                                  OrdersByRegionRows(db)),
                            1 \in faults),
                        boom)} :
              Respond([route |-> "api_test_multi_region_orders_by_region"], h)

HandleApiRecentOrders ==
    /\ pc = "idle"
    /\ \E limit \in OptLimits, faults \in FaultSets(1), boom \in BOOLEAN :
          \E h \in {api_test_multi_region_recent_orders(connector,
                        execute_query(connector,
                            Query("recent_orders_query", "app.py:840", 0,
                                  RecentOrdersRows(db, OrElse(limit, DefaultRecentLimit))),
                            1 \in faults \/ OrElse(limit, DefaultRecentLimit) < 0),
                        boom)} :
              Respond([route |-> "api_test_multi_region_recent_orders", limit |-> limit], h)

HandleDashboard ==
    /\ pc = "idle"
    /\ \E faults \in FaultSets(14), boom \in BOOLEAN :
          \E h \in {dashboard(connector, get_dashboard_metrics(connector, db, faults), boom)} :
              Respond([route |-> "dashboard"], h)

HandleTestAcid ==
    /\ pc = "idle"
    /\ \E boom \in BOOLEAN :
          \E h \in {test_acid(connector, boom)} : Respond([route |-> "test_acid"], h)

HandleTestMultiRegion ==
    /\ pc = "idle"
    /\ \E boom \in BOOLEAN :
          \E h \in {test_multi_region(connector, boom)} :
              Respond([route |-> "test_multi_region"], h)

HandleApiNewOrder ==
    /\ pc = "idle"
    /\ \E data \in JsonBodies(NewOrderFields), faults \in FaultSets(4 + 2 * MaxItems) :
          \E h \in {api_new_order(connector, db, data, faults)} :
              /\ req' = [route |-> "api_new_order", data |-> data]
              /\ got' = h.got
              /\ resp' = h.resp
              /\ qlog' = h.log
              /\ raised' = h.raised
    /\ pc' = "responded"
    /\ UNCHANGED <<db, connector, singletons, before, again, threads>>

HandleApiMultiRegionCreateOrder ==
    /\ pc = "idle"
    /\ \E data \in JsonBodies(NewOrderFields), faults \in FaultSets(4 + 2 * MaxItems) :
          \E h \in {api_test_multi_region_create_order(connector, db, data, faults)} :
              /\ req' = [route |-> "api_test_multi_region_create_order", data |-> data]
              /\ got' = h.got
              /\ resp' = h.resp
              /\ qlog' = h.log
              /\ raised' = h.raised
    /\ pc' = "responded"
    /\ UNCHANGED <<db, connector, singletons, before, again, threads>>

HandleApiPayment ==
    /\ pc = "idle"
    /\ \E data \in JsonBodies(PaymentFields), outcome \in {"success", "failure"} :
          \E h \in {api_payment(data, outcome)} :
              /\ req' = [route |-> "api_payment", data |-> data]
              /\ got' = h.got
              /\ resp' = h.resp
              /\ qlog' = h.log
              /\ raised' = h.raised
    /\ pc' = "responded"
    /\ UNCHANGED <<db, connector, singletons, before, again, threads>>

HandleApiDelivery ==
    /\ pc = "idle"
    /\ \E data \in JsonBodies(DeliveryFields), outcome \in {"success", "failure", "raises"} :
          \E h \in {api_delivery(data, outcome)} :
              /\ req' = [route |-> "api_delivery", data |-> data]
              /\ got' = h.got
              /\ resp' = h.resp
              /\ qlog' = h.log
              /\ raised' = h.raised
    /\ pc' = "responded"
    /\ UNCHANGED <<db, connector, singletons, before, again, threads>>

\* An ACID test run that would write a test row of its own (what C14 excludes).
HandleApiTestAcidWriting ==
    /\ pc = "idle"
    /\ \E test_type \in {"atomicity", "consistency", "isolation", "durability", "all", "bogus"},
          faults \in FaultSets(8 + 6 + 3 + 2) :
          \E h \in {api_test_acid(connector, db, test_type, faults)} :
              /\ req' = [route |-> "api_test_acid", test_type |-> test_type]
              /\ got' = h.got
              /\ resp' = h.resp
              /\ qlog' = h.log
              /\ raised' = h.raised
              /\ db' = IF h.log = <<>> THEN db
                       ELSE [db EXCEPT !.history = Append(@, [w |-> 1])]
    /\ pc' = "responded"
    /\ UNCHANGED <<connector, singletons, before, again, threads>>

HandleApiTestAcid ==
    /\ pc = "idle"
    /\ \E test_type \in {"atomicity", "consistency", "isolation", "durability", "all", "bogus"},
          faults \in FaultSets(8 + 6 + 3 + 2) :
          \E h \in {api_test_acid(connector, db, test_type, faults)} :
              /\ req' = [route |-> "api_test_acid", test_type |-> test_type]
              /\ got' = h.got
              /\ resp' = h.resp
              /\ qlog' = h.log
              /\ raised' = h.raised
    /\ pc' = "responded"
    /\ UNCHANGED <<db, connector, singletons, before, again, threads>>

InitPages ==
    /\ db \in Databases
    /\ connector \in ConnectorStates
    /\ singletons = InitialSingletons
    /\ pc = "idle"
    /\ req = NoRequest
    /\ got = NoResult
    /\ resp = NoResponse
    /\ qlog = <<>>
    /\ raised = FALSE
    /\ before = Snapshot(db, connector, singletons)
    /\ again = NoResult
    /\ threads = NoThreads

NextPages == HandleOrders \/ HandleInventory \/ HandlePayments \/ Done

SpecPages == InitPages /\ [][NextPages]_vars

InitPost ==
    /\ db \in TxnDatabases
    /\ connector \in ConnectorStates
    /\ singletons = InitialSingletons
    /\ pc = "idle"
    /\ req = NoRequest
    /\ got = NoResult
    /\ resp = NoResponse
    /\ qlog = <<>>
    /\ raised = FALSE
    /\ before = Snapshot(db, connector, singletons)
    /\ again = NoResult
    /\ threads = NoThreads

NextPost ==
    \/ HandleApiNewOrder
    \/ HandleApiPayment
    \/ HandleApiDelivery
    \/ HandleApiTestAcid
    \/ HandleApiMultiRegionCreateOrder
    \/ Done

SpecPost == InitPost /\ [][NextPost]_vars

NextHandlers ==
    \/ HandleDashboard
    \/ HandleOrders
    \/ HandleInventory
    \/ HandlePayments
    \/ HandleApiNewOrder
    \/ HandleApiPayment
    \/ HandleApiOrderStatus
    \/ HandleApiDelivery
    \/ HandleApiStockLevel
    \/ HandleTestAcid
    \/ HandleTestMultiRegion
    \/ HandleApiTestAcid
    \/ HandleApiMultiRegionCreateOrder
    \/ HandleApiOrdersByRegion
    \/ HandleApiRecentOrders
    \/ HandleApiHealth
    \/ Done

SpecHandlers == InitPost /\ [][NextHandlers]_vars

(***************************************************************************)
(* The read operations called twice in a row with the same arguments.  The *)
(* database is the same for both calls: the same contents, and the same    *)
(* statements fail.                                                        *)
(***************************************************************************)
PaginatedCalls(op) ==
    [op : {op}, warehouse_id : OptWIds, limit : (0 - 1)..MaxLimit, offset : (0 - 1)..MaxRows,
     faults : FaultSets(2)]

\* The call made: its return value and the statements it issued.
ReadOutcome(conn, d, call) ==
    CASE call.op = "get_orders" ->
            [result |-> get_orders(conn, d, call.warehouse_id, call.limit, call.offset,
                                   call.faults),
             log |-> PaginatedLog(conn, "spanner_connector.py:437", "spanner_connector.py:452",
                                 call.limit, call.offset, call.faults)]
      [] call.op = "get_inventory_paginated" ->
            [result |-> get_inventory_paginated(conn, d, call.warehouse_id, call.limit,
                                                call.offset, call.faults),
             log |-> PaginatedLog(conn, "spanner_connector.py:679", "spanner_connector.py:694",
                                 call.limit, call.offset, call.faults)]
      [] call.op = "get_payment_history_paginated" ->
            [result |-> get_payment_history_paginated(conn, d, call.warehouse_id, call.limit,
                                                      call.offset, call.faults),
             log |-> PaginatedLog(conn, "spanner_connector.py:317", "spanner_connector.py:332",
                                 call.limit, call.offset,
                                                       call.faults)]
      [] call.op = "get_order_status" ->
            get_order_status(conn, d, call.warehouse_id, call.district_id, call.customer_id,
                             call.faults)
      [] call.op = "get_stock_level" ->
            get_stock_level(conn, d, call.warehouse_id, call.district_id, call.threshold,
                            call.faults)
      [] OTHER -> service_get_dashboard_metrics(IF call.has_connector THEN Some(conn) ELSE None,
                                                d, call.faults)

\* The first call: the state it finds is remembered in before.
Call(call) ==
    /\ pc = "idle"
    /\ \E o \in {ReadOutcome(connector, db, call)} :
          /\ got' = o.result
          /\ qlog' = o.log
    /\ req' = call
    /\ before' = Snapshot(db, connector, singletons)
    /\ pc' = "called"
    /\ UNCHANGED <<db, connector, singletons, resp, raised, again, threads>>

\* A get_orders that deletes the rows it has read (what C7 excludes).
ReadOrdersConsuming ==
    /\ pc = "idle"
    /\ \E call \in PaginatedCalls("get_orders") :
          /\ \E o \in {ReadOutcome(connector, db, call)} :
                /\ got' = o.result
                /\ qlog' = o.log
          /\ req' = call
    /\ db' = [db EXCEPT !.orders = <<>>]
    /\ before' = Snapshot(db, connector, singletons)
    /\ pc' = "called"
    /\ UNCHANGED <<connector, singletons, resp, raised, again, threads>>

ReadOrders == \E call \in PaginatedCalls("get_orders") : Call(call)

ReadInventory == \E call \in PaginatedCalls("get_inventory_paginated") : Call(call)

ReadPayments == \E call \in PaginatedCalls("get_payment_history_paginated") : Call(call)

ReadOrderStatus ==
    \E call \in [op : {"get_order_status"}, warehouse_id : WIds, district_id : {1},
                 customer_id : 1..2, faults : FaultSets(2)] : Call(call)

ReadStockLevel ==
    \E call \in [op : {"get_stock_level"}, warehouse_id : WIds, district_id : {1},
                 threshold : {0, DefaultThreshold, 15}, faults : FaultSets(1)] : Call(call)

ReadDashboardMetrics ==
    \E call \in [op : {"get_dashboard_metrics"}, faults : FaultSets(14),
                 has_connector : {TRUE}]
              \cup [op : {"get_dashboard_metrics"}, faults : {{}}, has_connector : {FALSE}] :
       Call(call)

\* The second call, with the arguments of the first.
Repeat ==
    /\ pc = "called"
    /\ \E o \in {ReadOutcome(connector, db, req)} :
          /\ again' = o.result
          /\ qlog' = qlog \o o.log
    /\ pc' = "responded"
    /\ UNCHANGED <<db, connector, singletons, req, got, resp, raised, before, threads>>

InitReads ==
    /\ db \in Databases \cup TxnDatabases \cup TwoCustomerDatabases
    /\ connector \in ConnectorStates
    /\ singletons = InitialSingletons
    /\ pc = "idle"
    /\ req = NoRequest
    /\ got = NoResult
    /\ resp = NoResponse
    /\ qlog = <<>>
    /\ raised = FALSE
    /\ before = Snapshot(db, connector, singletons)
    /\ again = NoResult
    /\ threads = NoThreads

NextReads ==
    \/ ReadOrders
    \/ ReadInventory
    \/ ReadPayments
    \/ ReadOrderStatus
    \/ ReadStockLevel
    \/ ReadDashboardMetrics
    \/ Repeat
    \/ Done

SpecReads == InitReads /\ [][NextReads]_vars

(***************************************************************************)
(* OrderService.execute_new_order called directly, with item dicts that    *)
(* may carry a quantity: negative, zero, or more than any stock row holds. *)
(***************************************************************************)
Quantities == {0 - 1, 0, MaxQuantity}

ItemDicts == [item_id : ItemIds] \cup [item_id : ItemIds, quantity : Quantities]

NewOrderCalls ==
    [op : {"execute_new_order"}, w : WIds,
     items : {None} \cup {Some(l) : l \in UNION {[1..n -> ItemDicts] : n \in 0..MaxItems}},
     faults : FaultSets(4 + 2 * MaxItems)]

\* An order entry that would commit the order it computed (what C13 excludes).
CallNewOrderCommitting ==
    /\ pc = "idle"
    /\ \E call \in NewOrderCalls :
          \E o \in {execute_new_order(connector, db, call.w, 1, 1, call.items, call.faults)} :
              /\ req' = call
              /\ got' = o.result
              /\ qlog' = o.log
              /\ db' = IF o.result.success
                       THEN [db EXCEPT !.orders = Append(@, [w |-> call.w, d |-> 1, c |-> 1,
                                                             o_id |-> o.result.order_id])]
                       ELSE db
    /\ pc' = "responded"
    /\ UNCHANGED <<connector, singletons, resp, raised, before, again, threads>>

CallNewOrder ==
    /\ pc = "idle"
    /\ \E call \in NewOrderCalls :
          \E o \in {execute_new_order(connector, db, call.w, 1, 1, call.items, call.faults)} :
              /\ req' = call
              /\ got' = o.result
              /\ qlog' = o.log
    /\ pc' = "responded"
    /\ UNCHANGED <<db, connector, singletons, resp, raised, before, again, threads>>

\* A second order entry for the same warehouse and district after one that
\* succeeded, with one item and no failing statement.
CallNewOrderAgain ==
    /\ pc = "responded"
    /\ req.op = "execute_new_order"
    /\ got.success
    /\ \E call \in {c \in NewOrderCalls : c.w = req.w /\ c.faults = {} /\ c.items # None} :
          /\ Len(Val(call.items)) = 1
          /\ \E o \in {execute_new_order(connector, db, call.w, 1, 1, call.items, call.faults)} :
                /\ again' = o.result
                /\ qlog' = qlog \o o.log
    /\ pc' = "repeated"
    /\ UNCHANGED <<db, connector, singletons, req, got, resp, raised, before, threads>>

InitNewOrder ==
    /\ db \in {d \in TxnDatabases : Len(d.orders) <= 1} \cup SparseOrderDatabases
    /\ connector \in ConnectorStates
    /\ singletons = InitialSingletons
    /\ pc = "idle"
    /\ req = NoRequest
    /\ got = NoResult
    /\ resp = NoResponse
    /\ qlog = <<>>
    /\ raised = FALSE
    /\ before = Snapshot(db, connector, singletons)
    /\ again = NoResult
    /\ threads = NoThreads

NextNewOrder ==
    \/ CallNewOrder
    \/ CallNewOrderAgain
    \/ Done

SpecNewOrder == InitNewOrder /\ [][NextNewOrder]_vars

(***************************************************************************)
(* SpannerConnector.execute_query, from the result set to the list of      *)
(* dicts.  fields is the result set's metadata: None when the result set   *)
(* has no fields attribute, else the list of column names (possibly        *)
(* empty).  rows_data are the rows as tuples of values; a value is an      *)
(* integer, NULL or a datetime.                                            *)
(***************************************************************************)
RawValues == [kind : {"int", "null", "datetime"}, v : {1}]

RawRows ==
    UNION {[1..n -> [1..wd -> RawValues]] : n \in 0..MaxRawRows, wd \in 1..MaxWidth}

FieldOptions == {None, Some(<<>>), Some(<<"c_first">>), Some(<<"c_first", "w_tax">>)}

\* A column of the select list: its table prefix, its name and its alias.
SelectColumns ==
    [prefix : BOOLEAN, name : {"c_first", "w_tax"}, alias : {None, Some("first")}]

\* The query text: whether it has a select list before FROM, the columns of
\* that list, and whether it holds COUNT(*).
QueryTexts ==
    [select_from : {FALSE}, cols : {<<>>}, count_star : BOOLEAN]
    \cup [select_from : {TRUE}, cols : [1..1 -> SelectColumns], count_star : {FALSE}]

\* f"col_{i}"
ColName(i) ==
    CASE i = 0 -> "col_0"
      [] i = 1 -> "col_1"
      [] OTHER -> "col_n"

\* value.isoformat() for a datetime, the value itself otherwise.
StoredValue(value) ==
    IF value.kind = "datetime" THEN [kind |-> "str", v |-> value.v] ELSE value

\* column_names[i] if i < len(column_names) else f"col_{i}", for the value at
\* position k = i + 1.
NameAt(column_names, k) ==
    IF k <= Len(column_names) THEN column_names[k] ELSE ColName(k - 1)

\* row_dict: a later value stored under the same name replaces the earlier.
RowDict(column_names, row) ==
    [n \in {NameAt(column_names, k) : k \in DOMAIN row} |->
        StoredValue(row[CHOOSE k \in DOMAIN row :
                           /\ NameAt(column_names, k) = n
                           /\ \A j \in DOMAIN row : NameAt(column_names, j) = n => j <= k])]

BuildRows(column_names, rows_data) ==
    [k \in DOMAIN rows_data |-> RowDict(column_names, rows_data[k])]

\* The local column_names when the fallback starts: the field names on the
\* metadata path, unbound (None) otherwise, as no other statement assigns it
\* before it is read.
BoundColumnNames(fields) ==
    IF fields # None /\ Val(fields) # <<>> THEN Some(Val(fields)) ELSE None

\* Without metadata the fallback reads column_names (column_names.append in
\* the loop over the select list, or `if not column_names') while it is
\* unbound, whatever the query text: UnboundLocalError, which the except
\* block of execute_query turns into [].
rows_of_result(query, fields, rows_data) ==
    IF BoundColumnNames(fields) = None
    THEN <<>>
    ELSE BuildRows(Val(BoundColumnNames(fields)), rows_data)

ConvertResult ==
    /\ pc = "idle"
    /\ \E query \in QueryTexts, fields \in FieldOptions, rows_data \in RawRows :
          /\ req' = [query |-> query, fields |-> fields, rows_data |-> rows_data]
          /\ got' = [rows |-> rows_of_result(query, fields, rows_data)]
    /\ pc' = "responded"
    /\ UNCHANGED <<db, connector, singletons, resp, qlog, raised, before, again, threads>>

InitConvert ==
    /\ db = EmptyDb
    /\ connector \in {c \in ConnectorStates : c.database # None}
    /\ singletons = InitialSingletons
    /\ pc = "idle"
    /\ req = NoRequest
    /\ got = NoResult
    /\ resp = NoResponse
    /\ qlog = <<>>
    /\ raised = FALSE
    /\ before = Snapshot(db, connector, singletons)
    /\ again = NoResult
    /\ threads = NoThreads

NextConvert ==
    \/ ConvertResult
    \/ Done

SpecConvert == InitConvert /\ [][NextConvert]_vars

(***************************************************************************)
(* The query builders of the paginated getters.  A builder state holds the *)
(* WHERE conditions built so far (each with the placeholders it uses), the *)
(* params dict as a set of <<n, argument>> pairs (key p<n> bound to the    *)
(* value of that argument) and param_counter.                              *)
(***************************************************************************)
NoFilters == [where_conditions |-> <<>>, params |-> {}, param_counter |-> 1]

\* params[f"p{n}"] = value
SetParam(params, n, arg) == {b \in params : b[1] # n} \cup {<<n, arg>>}

\* A builder that would number every filter with the same placeholder (what
\* C22 excludes).
AddFilterSamePlaceholder(st, column, arg, uses) ==
    [where_conditions |-> Append(st.where_conditions,
                                 [column |-> column,
                                  placeholders |-> [j \in 1..uses |-> st.param_counter]]),
     params |-> SetParam(st.params, st.param_counter, arg),
     param_counter |-> st.param_counter]

\* where_conditions.append(f"<column> ... ${param_counter}"), the parameter
\* bound, param_counter += 1; uses is the number of times the condition
\* writes the placeholder.
AddFilter(st, column, arg, uses) ==
    [where_conditions |-> Append(st.where_conditions,
                                 [column |-> column,
                                  placeholders |-> [j \in 1..uses |-> st.param_counter]]),
     params |-> SetParam(st.params, st.param_counter, arg),
     param_counter |-> st.param_counter + 1]

\* where_conditions.append("no.no_o_id IS [NOT] NULL"): no parameter.
AddCondition(st, column) ==
    [st EXCEPT !.where_conditions = Append(@, [column |-> column, placeholders |-> <<>>])]

WhenSupplied(st, supplied, column, arg, uses) ==
    IF supplied THEN AddFilter(st, column, arg, uses) ELSE st

\* get_orders: warehouse_id, district_id, customer_id, then status.
OrderFilters(call) ==
    LET a == WhenSupplied(NoFilters, call.warehouse_id # None, "o.o_w_id", "warehouse_id", 1)
        b == WhenSupplied(a, call.district_id # None, "o.o_d_id", "district_id", 1)
        c == WhenSupplied(b, call.customer_id # None, "o.o_c_id", "customer_id", 1)
    IN  IF call.status = Some("new") THEN AddCondition(c, "no.no_o_id IS NOT NULL")
        ELSE IF call.status = Some("delivered") THEN AddCondition(c, "no.no_o_id IS NULL")
        ELSE c

\* get_payment_history_paginated: warehouse_id, district_id, customer_id.
PaymentFilters(call) ==
    LET a == WhenSupplied(NoFilters, call.warehouse_id # None, "h.h_w_id", "warehouse_id", 1)
        b == WhenSupplied(a, call.district_id # None, "h.h_d_id", "district_id", 1)
    IN  WhenSupplied(b, call.customer_id # None, "h.h_c_id", "customer_id", 1)

\* get_inventory_paginated: warehouse_id, low_stock_threshold (also when 0),
\* item_search (when not empty; its condition writes the placeholder twice).
InventoryFilters(call) ==
    LET a == WhenSupplied(NoFilters, call.warehouse_id # None, "s.s_w_id", "warehouse_id", 1)
        b == WhenSupplied(a, call.low_stock_threshold # None, "s.s_quantity",
                          "low_stock_threshold", 1)
    IN  WhenSupplied(b, call.item_search # None /\ call.item_search # Some(""),
                     "i.i_name, i.i_data", "item_search", 2)

FiltersOf(call) ==
    IF call.op = "get_orders" THEN OrderFilters(call)
    ELSE IF call.op = "get_payment_history_paginated" THEN PaymentFilters(call)
    ELSE InventoryFilters(call)

\* The two statements of a getter as built: the count query over the WHERE
\* clause with the params of that moment, then the page query with LIMIT
\* ${param_counter} OFFSET ${param_counter + 1} and the two further params.
BuiltQueries(call) ==
    LET st == FiltersOf(call)
    IN  [where_conditions |-> st.where_conditions,
         count_params |-> st.params,
         limit_placeholder |-> st.param_counter,
         offset_placeholder |-> st.param_counter + 1,
         page_params |-> SetParam(SetParam(st.params, st.param_counter, "limit"),
                                  st.param_counter + 1, "offset")]

\* The statements handed to the database with their params: none without a
\* database, the count query alone when it fails.
ExecutedWith(conn, built, faults) ==
    IF conn.database = None THEN <<>>
    ELSE IF 1 \in faults
    THEN <<[stmt |-> "count_query", params |-> built.count_params, ok |-> FALSE]>>
    ELSE <<[stmt |-> "count_query", params |-> built.count_params, ok |-> TRUE],
           [stmt |-> "query", params |-> built.page_params, ok |-> 2 \notin faults]>>

BuilderCalls ==
    [op : {"get_orders"}, warehouse_id : {None, Some(1)}, district_id : {None, Some(1)},
     customer_id : {None, Some(1)},
     status : {None, Some("new"), Some("delivered"), Some("shipped")}]
    \cup [op : {"get_payment_history_paginated"}, warehouse_id : {None, Some(1)},
          district_id : {None, Some(1)}, customer_id : {None, Some(1)}]
    \cup [op : {"get_inventory_paginated"}, warehouse_id : {None, Some(1)},
          low_stock_threshold : {None, Some(0), Some(DefaultThreshold)},
          item_search : {None, Some(""), Some("bolt")}]

BuildAndExecute ==
    /\ pc = "idle"
    /\ \E call \in BuilderCalls, faults \in FaultSets(2) :
          /\ req' = [call |-> call, faults |-> faults]
          /\ got' = BuiltQueries(call)
          /\ qlog' = ExecutedWith(connector, BuiltQueries(call), faults)
    /\ pc' = "responded"
    /\ UNCHANGED <<db, connector, singletons, resp, raised, before, again, threads>>

InitBuild ==
    /\ db = EmptyDb
    /\ connector \in ConnectorStates
    /\ singletons = InitialSingletons
    /\ pc = "idle"
    /\ req = NoRequest
    /\ got = NoResult
    /\ resp = NoResponse
    /\ qlog = <<>>
    /\ raised = FALSE
    /\ before = Snapshot(db, connector, singletons)
    /\ again = NoResult
    /\ threads = NoThreads

NextBuild ==
    \/ BuildAndExecute
    \/ Done

SpecBuild == InitBuild /\ [][NextBuild]_vars

(***************************************************************************)
(* test_consistency on databases with up to MaxWide warehouse ids in the   *)
(* district table, any of which may be missing from the warehouse table.   *)
(***************************************************************************)
WideDatabases ==
    {[EmptyDb EXCEPT !.district = {<<w, 1>> : w \in D}, !.warehouse = W] :
        D \in SUBSET (1..MaxWide), W \in SUBSET (1..MaxWide)}

RunConsistency ==
    /\ pc = "idle"
    /\ \E faults \in FaultSets(1 + 5) :
          \E o \in {test_consistency(connector, db, faults, 0)} :
              /\ req' = [op |-> "test_consistency", faults |-> faults]
              /\ got' = o.result
              /\ qlog' = o.log
    /\ pc' = "responded"
    /\ UNCHANGED <<db, connector, singletons, resp, raised, before, again, threads>>

InitConsistency ==
    /\ db \in WideDatabases
    /\ connector \in ConnectorStates
    /\ singletons = InitialSingletons
    /\ pc = "idle"
    /\ req = NoRequest
    /\ got = NoResult
    /\ resp = NoResponse
    /\ qlog = <<>>
    /\ raised = FALSE
    /\ before = Snapshot(db, connector, singletons)
    /\ again = NoResult
    /\ threads = NoThreads

NextConsistency ==
    \/ RunConsistency
    \/ Done

SpecConsistency == InitConsistency /\ [][NextConsistency]_vars

(***************************************************************************)
(* Statement-granular execution.  The development server handles each      *)
(* request in a thread of its own, so the statements of two requests and   *)
(* the commits of other clients interleave.  A connector method is the     *)
(* sequence of its snapshot operations: `with self.database.snapshot()'    *)
(* opens a read snapshot, snapshot.execute_sql runs a statement in it, and *)
(* leaving the with block (normally, by return or by an exception) closes  *)
(* it.  A snapshot reads the database as of its first statement.           *)
(***************************************************************************)
Workers == 1..MaxWorkers

OpenAt(site) == [kind |-> "open", site |-> site, stmt |-> "none"]
SqlAt(stmt, site) == [kind |-> "sql", site |-> site, stmt |-> stmt]
CloseAt(site) == [kind |-> "close", site |-> site, stmt |-> "none"]

\* The snapshot operations of a connector method, in program order.
Program(op) ==
    CASE op = "get_orders" ->
           <<OpenAt("spanner_connector.py:436"),
             SqlAt("count_query", "spanner_connector.py:437"),
             CloseAt("spanner_connector.py:436"),
             OpenAt("spanner_connector.py:451"),
             SqlAt("query", "spanner_connector.py:452"),
             CloseAt("spanner_connector.py:451")>>
      [] op = "get_inventory_paginated" ->
           <<OpenAt("spanner_connector.py:678"),
             SqlAt("count_query", "spanner_connector.py:679"),
             CloseAt("spanner_connector.py:678"),
             OpenAt("spanner_connector.py:693"),
             SqlAt("query", "spanner_connector.py:694"),
             CloseAt("spanner_connector.py:693")>>
      [] op = "get_payment_history_paginated" ->
           <<OpenAt("spanner_connector.py:316"),
             SqlAt("count_query", "spanner_connector.py:317"),
             CloseAt("spanner_connector.py:316"),
             OpenAt("spanner_connector.py:331"),
             SqlAt("query", "spanner_connector.py:332"),
             CloseAt("spanner_connector.py:331")>>
      [] op = "get_order_status" ->
           <<OpenAt("spanner_connector.py:524"),
             SqlAt("query", "spanner_connector.py:525"),
             CloseAt("spanner_connector.py:524"),
             OpenAt("spanner_connector.py:588"),
             SqlAt("order_lines_query", "spanner_connector.py:589"),
             CloseAt("spanner_connector.py:588")>>
      [] op = "test_connection" ->
           <<OpenAt("spanner_connector.py:85"),
             SqlAt("select_1", "spanner_connector.py:87"),
             SqlAt("warehouse_count", "spanner_connector.py:98"),
             CloseAt("spanner_connector.py:85")>>
      [] op = "execute_query" ->
           <<OpenAt("spanner_connector.py:162"),
             SqlAt("query", "spanner_connector.py:166"),
             CloseAt("spanner_connector.py:162")>>
      [] op = "test_isolation" ->
           <<OpenAt("spanner_connector.py:162"),
             SqlAt("read1", "spanner_connector.py:166"),
             CloseAt("spanner_connector.py:162"),
             OpenAt("spanner_connector.py:162"),
             SqlAt("read2", "spanner_connector.py:166"),
             CloseAt("spanner_connector.py:162"),
             OpenAt("spanner_connector.py:162"),
             SqlAt("read3", "spanner_connector.py:166"),
             CloseAt("spanner_connector.py:162")>>

PaginatedGetters == {"get_orders", "get_inventory_paginated", "get_payment_history_paginated"}

\* The calls a request makes in this specification.
StepCalls ==
    [op : PaginatedGetters, warehouse_id : {None, Some(1)}, limit : {MaxLimit},
     offset : {0}]
    \cup [op : {"get_order_status"}, w : WIds, dist : {1}, c : {1}]
    \cup [op : {"test_connection", "execute_query"}]

IdleThread ==
    [status |-> "idle", call |-> NoRequest, ip |-> 0, snap |-> None, vals |-> <<>>,
     failed |-> FALSE, result |-> NoResult]

\* The table a paginated getter reads, in the order of its ORDER BY.
TableOf(op, d, warehouse_id) ==
    CASE op = "get_orders" -> Reverse(Matching(d.orders, warehouse_id))
      [] op = "get_inventory_paginated" -> Matching(d.stock, warehouse_id)
      [] op = "get_payment_history_paginated" -> Reverse(Matching(d.history, warehouse_id))

\* The rows a statement of the call returns when it reads database d; vals are
\* the answers of the call's earlier statements.
RowsOf(call, stmt, d, vals) ==
    IF call.op \in PaginatedGetters
    THEN IF stmt = "count_query"
         THEN <<Len(TableOf(call.op, d, call.warehouse_id))>>
         ELSE PageRows(TableOf(call.op, d, call.warehouse_id), call.limit, call.offset)
    ELSE IF call.op = "get_order_status"
    THEN IF stmt = "query"
         THEN LET found == CustomerOrders(d, call.w, call.dist, call.c)
              IN  IF found = <<>> THEN <<>> ELSE <<found[Len(found)]>>
         ELSE OrderLinesOf(d, call.w, call.dist, vals[1].rows[1].o_id)
    ELSE IF call.op = "test_isolation" THEN <<Cardinality(d.customer)>>
    ELSE IF stmt = "select_1" THEN <<1>>
    ELSE IF stmt = "warehouse_count" THEN <<Cardinality(d.warehouse)>>
    ELSE <<Len(d.orders)>>

\* What the method returns once its last snapshot is closed (or its except
\* block ran).
ReturnOf(t) ==
    IF t.call.op \in PaginatedGetters
    THEN IF t.failed
         THEN PaginatedFailure(t.call.limit, t.call.offset)
         ELSE [rows |-> t.vals[2].rows, total_count |-> t.vals[1].rows[1],
               limit |-> t.call.limit, offset |-> t.call.offset,
               has_next |-> (t.call.offset + t.call.limit) < t.vals[1].rows[1],
               has_prev |-> t.call.offset > 0]
    ELSE IF t.call.op = "get_order_status"
    THEN IF t.failed THEN Failure("query failed")
         ELSE IF t.vals[1].rows = <<>> THEN Failure("Order not found")
         ELSE [success |-> TRUE, order_id |-> t.vals[1].rows[1].o_id,
               order_line_count |-> Len(t.vals[2].rows), order_lines |-> t.vals[2].rows]
    ELSE IF t.call.op = "test_connection" THEN [connected |-> ~t.failed]
    ELSE IF t.call.op = "test_isolation"
    THEN [test |-> "Isolation",
          passed |-> /\ Len(SelectSeq(t.vals, LAMBDA v : v.rows # <<>>)) = 3
                     /\ \A j, k \in DOMAIN t.vals : t.vals[j].rows = t.vals[k].rows]
    ELSE [rows |-> IF t.failed THEN <<>> ELSE t.vals[1].rows]

\* A request arrives and a worker starts the connector method.  Without a
\* database the method returns at once: execute_query and test_connection
\* test self.database first, the getters fail on self.database.snapshot().
Begin(w) ==
    /\ threads[w].status = "idle"
    /\ \E call \in StepCalls :
          threads' = [threads EXCEPT ![w] =
              [IdleThread EXCEPT !.status = "running", !.call = call,
                                 !.ip = IF connector.database = None
                                        THEN Len(Program(call.op)) + 1 ELSE 1,
                                 !.failed = connector.database = None]]
    /\ UNCHANGED <<db, connector, singletons, pc, req, got, resp, qlog, raised, before, again>>

Running(w) ==
    /\ threads[w].status = "running"
    /\ threads[w].ip <= Len(Program(threads[w].call.op))

\* A snapshot that would read the database as of the start of the server
\* (what C29 excludes).
OpenSnapshotPinned(w) ==
    /\ Running(w)
    /\ Program(threads[w].call.op)[threads[w].ip].kind = "open"
    /\ threads' = [threads EXCEPT ![w].ip = @ + 1,
                                  ![w].snap = Some([owner |-> w, at |-> Some(before.db),
                                                    statements |-> 0])]
    /\ UNCHANGED <<db, connector, singletons, pc, req, got, resp, qlog, raised, before, again>>

\* with self.database.snapshot() as snapshot:
OpenSnapshot(w) ==
    /\ Running(w)
    /\ Program(threads[w].call.op)[threads[w].ip].kind = "open"
    /\ threads' = [threads EXCEPT ![w].ip = @ + 1,
                                  ![w].snap = Some([owner |-> w, at |-> None, statements |-> 0])]
    /\ UNCHANGED <<db, connector, singletons, pc, req, got, resp, qlog, raised, before, again>>

\* A statement that would not see the writes committed since the server
\* started (what C12 excludes).
AnsweredStale(t, d) ==
    LET stmt == Program(t.call.op)[t.ip].stmt
    IN  [t EXCEPT !.ip = @ + 1,
                  !.snap = Some([Val(t.snap) EXCEPT !.at = Some(before.db), !.statements = @ + 1]),
                  !.vals = Append(@, [stmt |-> stmt,
                                      rows |-> RowsOf(t.call, stmt, before.db, t.vals),
                                      current |-> RowsOf(t.call, stmt, d, t.vals)])]

\* The thread after the statement at its ip ran in its open snapshot, reading
\* the database as of the snapshot's first statement.  current is what the
\* statement would return from the database as it is when the statement runs.
Answered(t, d) ==
    LET stmt == Program(t.call.op)[t.ip].stmt
        at == IF Val(t.snap).at = None THEN d ELSE Val(Val(t.snap).at)
    IN  [t EXCEPT !.ip = @ + 1,
                  !.snap = Some([Val(t.snap) EXCEPT !.at = Some(at), !.statements = @ + 1]),
                  !.vals = Append(@, [stmt |-> stmt, rows |-> RowsOf(t.call, stmt, at, t.vals),
                                      current |-> RowsOf(t.call, stmt, d, t.vals)])]

\* The thread after the statement at its ip raised: test_connection catches
\* the failure of its second statement and goes on; everywhere else the
\* exception leaves the with block, which closes the snapshot, and the
\* method's except block returns the failure value.  In test_isolation that
\* method is execute_query: the read is [] and the test goes on with the next.
Raised(t) ==
    IF t.call.op = "test_connection" /\ Program(t.call.op)[t.ip].stmt = "warehouse_count"
    THEN [t EXCEPT !.ip = @ + 1,
                   !.snap = Some([Val(t.snap) EXCEPT !.statements = @ + 1])]
    ELSE IF t.call.op = "test_isolation"
    THEN [t EXCEPT !.ip = @ + 2, !.snap = None,
                   !.vals = Append(@, [stmt |-> Program(t.call.op)[t.ip].stmt,
                                       rows |-> <<>>, current |-> <<>>])]
    ELSE [t EXCEPT !.ip = Len(Program(t.call.op)) + 1, !.snap = None, !.failed = TRUE]

\* snapshot.execute_sql(...), and the loop that reads its rows.
ExecuteSql(w) ==
    /\ Running(w)
    /\ Program(threads[w].call.op)[threads[w].ip].kind = "sql"
    /\ threads[w].snap # None
    /\ \E ok \in BOOLEAN :
          threads' = [threads EXCEPT ![w] =
              IF ok THEN Answered(threads[w], db) ELSE Raised(threads[w])]
    /\ UNCHANGED <<db, connector, singletons, pc, req, got, resp, qlog, raised, before, again>>

\* A thread that would leave the with block without closing its snapshot (what
\* C11 excludes).
LeftOpen(t) ==
    [t EXCEPT !.ip = @ + 1]

\* Leaving the with block closes the snapshot.  get_order_status returns from
\* inside its first with block when the order query found no row.
Closed(t) ==
    [t EXCEPT !.snap = None,
              !.ip = IF t.call.op = "get_order_status" /\ t.vals[1].rows = <<>>
                     THEN Len(Program(t.call.op)) + 1 ELSE @ + 1]

CloseSnapshot(w) ==
    /\ Running(w)
    /\ Program(threads[w].call.op)[threads[w].ip].kind = "close"
    /\ threads' = [threads EXCEPT ![w] = Closed(threads[w])]
    /\ UNCHANGED <<db, connector, singletons, pc, req, got, resp, qlog, raised, before, again>>

\* The method returns its value to the handler.
Return(w) ==
    /\ threads[w].status = "running"
    /\ threads[w].ip > Len(Program(threads[w].call.op))
    /\ threads' = [threads EXCEPT ![w].status = "returned", ![w].result = ReturnOf(threads[w])]
    /\ UNCHANGED <<db, connector, singletons, pc, req, got, resp, qlog, raised, before, again>>

\* The response is sent and the worker is free again.
Leave(w) ==
    /\ threads[w].status = "returned"
    /\ threads' = [threads EXCEPT ![w] = IdleThread]
    /\ UNCHANGED <<db, connector, singletons, pc, req, got, resp, qlog, raised, before, again>>

\* The commits of other clients since the server started (before.db): every
\* commit adds one order line or one payment, or takes an item from stock.
Commits ==
    (Len(db.order_line) - Len(before.db.order_line))
    + (Len(db.history) - Len(before.db.history))
    + (IF db.stock = before.db.stock THEN 0 ELSE 1)

\* Another client of the database commits a new order with its order line.
CommitNewOrder ==
    /\ Commits < MaxCommits
    /\ \E w \in WIds, i \in ItemIds :
          db' = [db EXCEPT
                   !.orders = Append(@, [w |-> w, d |-> 1, c |-> 1,
                                         o_id |-> NextOrderId(db, w, 1)]),
                   !.order_line = Append(@, [w |-> w, d |-> 1,
                                             o_id |-> NextOrderId(db, w, 1), i |-> i])]
    /\ UNCHANGED <<connector, singletons, pc, req, got, resp, qlog, raised, before, again,
                   threads>>

\* Another client commits a further order line of an existing order.
CommitOrderLine ==
    /\ Commits < MaxCommits
    /\ \E k \in DOMAIN db.orders, i \in ItemIds :
          db' = [db EXCEPT !.order_line =
                    Append(@, [w |-> db.orders[k].w, d |-> 1, o_id |-> db.orders[k].o_id,
                               i |-> i])]
    /\ UNCHANGED <<connector, singletons, pc, req, got, resp, qlog, raised, before, again,
                   threads>>

\* Another client commits a payment.
CommitPayment ==
    /\ Commits < MaxCommits
    /\ \E w \in WIds : db' = [db EXCEPT !.history = Append(@, [w |-> w])]
    /\ UNCHANGED <<connector, singletons, pc, req, got, resp, qlog, raised, before, again,
                   threads>>

\* Another client's new order takes an item from stock.
CommitStock ==
    \E k \in {1} :
       /\ Commits < MaxCommits
       /\ db.stock[k].qty = 10 * k
       /\ db' = [db EXCEPT !.stock[k].qty = @ - 1]
       /\ UNCHANGED <<connector, singletons, pc, req, got, resp, qlog, raised, before, again,
                      threads>>

\* The populated database with at most one order.
StepDatabases ==
    {d \in TxnDatabases :
        /\ Len(d.orders) <= 1
        /\ d.warehouse = WIds /\ d.item = ItemIds /\ Len(d.stock) = MaxW * MaxItemId
        /\ Cardinality(d.district) = MaxW /\ Cardinality(d.customer) = MaxW}

InitSteps ==
    /\ db \in StepDatabases
    /\ connector \in ConnectorStates
    /\ singletons = InitialSingletons
    /\ pc = "idle"
    /\ req = NoRequest
    /\ got = NoResult
    /\ resp = NoResponse
    /\ qlog = <<>>
    /\ raised = FALSE
    /\ before = Snapshot(db, connector, singletons)
    /\ again = NoResult
    /\ threads = [w \in Workers |-> IdleThread]

NextSteps ==
    \/ \E w \in Workers : Begin(w)
    \/ \E w \in Workers : OpenSnapshot(w)
    \/ \E w \in Workers : ExecuteSql(w)
    \/ \E w \in Workers : CloseSnapshot(w)
    \/ \E w \in Workers : Return(w)
    \/ \E w \in Workers : Leave(w)
    \/ CommitNewOrder
    \/ CommitOrderLine
    \/ CommitPayment
    \/ CommitStock

SpecSteps == InitSteps /\ [][NextSteps]_vars

(***************************************************************************)
(* test_isolation at statement granularity: its three reads are three      *)
(* calls of execute_query, each with a snapshot of its own, while another  *)
(* client inserts and deletes customers.                                   *)
(***************************************************************************)
\* The customer another client may insert (and delete again).
NewCustomer == <<1, 1, 2>>

\* The worker that runs the test; the verdict of one run is what is observed.
IsolationWorkers == {1}

BeginIsolation(w) ==
    /\ threads[w].status = "idle"
    /\ threads' = [threads EXCEPT ![w] =
          [IdleThread EXCEPT !.status = "running", !.call = [op |-> "test_isolation"],
                             !.ip = IF connector.database = None
                                    THEN Len(Program("test_isolation")) + 1 ELSE 1,
                             !.failed = connector.database = None]]
    /\ UNCHANGED <<db, connector, singletons, pc, req, got, resp, qlog, raised, before, again>>

\* Another client commits the insert of a customer.
CommitCustomerInsert ==
    /\ \E c \in (before.db.customer \cup {NewCustomer}) \ db.customer :
          db' = [db EXCEPT !.customer = @ \cup {c}]
    /\ UNCHANGED <<connector, singletons, pc, req, got, resp, qlog, raised, before, again,
                   threads>>

\* Another client commits the delete of a customer.
CommitCustomerDelete ==
    /\ \E c \in db.customer : db' = [db EXCEPT !.customer = @ \ {c}]
    /\ UNCHANGED <<connector, singletons, pc, req, got, resp, qlog, raised, before, again,
                   threads>>

NextIsolation ==
    \/ \E w \in IsolationWorkers : BeginIsolation(w)
    \/ \E w \in IsolationWorkers : OpenSnapshot(w)
    \/ \E w \in IsolationWorkers : ExecuteSql(w)
    \/ \E w \in IsolationWorkers : CloseSnapshot(w)
    \/ \E w \in IsolationWorkers : Return(w)
    \/ \E w \in IsolationWorkers : Leave(w)
    \/ CommitCustomerInsert
    \/ CommitCustomerDelete

SpecIsolation == InitSteps /\ [][NextIsolation]_vars

(***************************************************************************)
(* Pagination claims (C1-C3), stated on the response of a page handler and *)
(* the getter result the handler computed it from.                         *)
(***************************************************************************)
DefaultLimitOf(route) ==
    IF route = "inventory" THEN DefaultInventoryLimit
    ELSE IF route = "payments" THEN DefaultPaymentsLimit
    ELSE DefaultOrdersLimit

ReqLimit == OrElse(req.limit, DefaultLimitOf(req.route))
ReqPage == OrElse(req.page, DefaultPage)
ReqOffset == (ReqPage - 1) * ReqLimit

PageResponded == pc = "responded" /\ req.route \in {"orders", "inventory", "payments"}

\* The numbers of pages of size limit that hold total_count items and no fewer do.
PagesNeeded(total_count, limit) ==
    {n \in 0..total_count :
        /\ n * limit >= total_count
        /\ \A m \in 0..(n - 1) : m * limit < total_count}

\* C1: total_pages is the number of pages of size limit needed to hold
\* total_count items (ceil(total_count / limit)) when total_count > 0, and 1
\* when total_count = 0, for every page request.
C1_TotalPagesIsCeiling ==
    PageResponded =>
        /\ "total_pages" \in DOMAIN resp.pagination
        /\ IF got.total_count > 0
           THEN resp.pagination.total_pages \in PagesNeeded(got.total_count, ReqLimit)
           ELSE resp.pagination.total_pages = 1

\* C2: has_next is true exactly when offset + limit < total_count, has_prev
\* exactly when offset > 0, and the flags agree with the page links: has_next
\* iff next_page is not null, has_prev iff prev_page is not null.
C2_FlagsAgreeWithLinks ==
    PageResponded /\ resp.pagination # EmptyDict =>
        LET p == resp.pagination
        IN  /\ got.has_next <=> (ReqOffset + ReqLimit < got.total_count)
            /\ got.has_prev <=> (ReqOffset > 0)
            /\ p.has_next <=> (p.next_page # None)
            /\ p.has_prev <=> (p.prev_page # None)

\* C3: the displayed item range is a valid range of the result: with
\* total_count > 0, 1 <= start_item <= end_item <= total_count and the range
\* holds at most limit items; with total_count = 0, start_item = end_item = 0.
C3_ItemRangeValid ==
    PageResponded /\ resp.pagination # EmptyDict =>
        LET p == resp.pagination
        IN  IF p.total_count > 0
            THEN /\ 1 <= p.start_item
                 /\ p.start_item <= p.end_item
                 /\ p.end_item <= p.total_count
                 /\ p.end_item - p.start_item + 1 <= p.limit
            ELSE p.start_item = 0 /\ p.end_item = 0

(***************************************************************************)
(* Claims about the POST endpoints (C4-C6).                                *)
(***************************************************************************)
PostResponded ==
    /\ pc = "responded"
    /\ req.route \in {"api_new_order", "api_payment", "api_delivery", "api_test_acid",
                      "api_test_multi_region_create_order"}

RequiredFieldsOf(route) ==
    IF route = "api_payment" THEN PaymentFields
    ELSE IF route = "api_delivery" THEN DeliveryFields
    ELSE NewOrderFields

\* The request has a JSON body (null or an object) without some required field.
LacksRequiredField ==
    /\ PostResponded
    /\ req.route # "api_test_acid"
    /\ req.data.json \in {"null", "object"}
    /\ MissingFields(RequiredFieldsOf(req.route), req.data) # {}

\* C4: on every POST endpoint with required fields, a request whose JSON body
\* lacks a required field is answered with HTTP 400 and the body
\* {"error": "Missing required field: <name>"} naming the first missing field
\* in declared order, and no service operation is invoked for it.
C4_MissingFieldIs400 ==
    LacksRequiredField =>
        /\ resp.status = 400
        /\ resp.body = [error |-> <<"Missing required field: ",
                                    FirstMissing(RequiredFieldsOf(req.route), req.data)>>]
        /\ got = NoResult
        /\ qlog = <<>>

\* The service was invoked and reported a failed operation.
ServiceReportedFailure == "success" \in DOMAIN got /\ ~got.success

\* C5: whenever validation or execution of a POST endpoint fails (a required
\* field is missing, the handler raises, or the service reports a failed
\* operation), the HTTP status is 400 or 500, never 200.
C5_FailureIsNever200 ==
    PostResponded /\ (LacksRequiredField \/ ServiceReportedFailure
                        \/ "error" \in DOMAIN resp.body) =>
        resp.status \in {400, 500}

\* C6: every JSON response body of every POST endpoint contains a success key
\* or an error key, on every path.
C6_BodyHasEnvelope ==
    PostResponded =>
        "success" \in DOMAIN resp.body \/ "error" \in DOMAIN resp.body

(***************************************************************************)
(* Claims about the read operations, error handling, retries and the       *)
(* module state (C7-C10).                                                  *)
(***************************************************************************)
\* One of the six read operations has been called twice.
CalledTwice == pc = "responded" /\ "op" \in DOMAIN req

ApiRoutes ==
    {"api_new_order", "api_payment", "api_order_status", "api_delivery", "api_stock_level",
     "api_test_acid", "api_test_multi_region_create_order",
     "api_test_multi_region_orders_by_region", "api_test_multi_region_recent_orders",
     "api_health"}

TemplateOf(route) ==
    CASE route = "dashboard" -> "dashboard.html"
      [] route = "orders" -> "orders.html"
      [] route = "inventory" -> "inventory.html"
      [] route = "payments" -> "payments.html"
      [] route = "test_acid" -> "test_acid.html"
      [] OTHER -> "test_multi_region.html"

\* The except block of the handler ran for this request.
ExceptionCaught == pc = "responded" /\ raised

\* C8 as stated: when an exception is raised in a handler's body, an API
\* handler returns a JSON object with an error key and HTTP 500, and every
\* page handler flashes a message and re-renders its own template.
C8_ErrorReRendersOwnTemplate ==
    ExceptionCaught =>
        IF req.route \in ApiRoutes
        THEN resp.kind = "json" /\ "error" \in DOMAIN resp.body /\ resp.status = 500
        ELSE resp.kind = "page" /\ resp.template = TemplateOf(req.route) /\ resp.flashed

\* C8, amended: every handler answers an exception raised in its try block:
\* an API handler with a JSON object holding an error key and HTTP 500; the
\* dashboard, orders, inventory and payments pages by flashing a message and
\* re-rendering their own template with empty defaults; the test_acid and
\* test_multi_region pages by flashing a message and redirecting to the
\* dashboard.
C8_ErrorIsAnswered ==
    ExceptionCaught =>
        CASE req.route \in ApiRoutes ->
                resp.kind = "json" /\ "error" \in DOMAIN resp.body /\ resp.status = 500
          [] req.route = "dashboard" ->
                /\ resp.kind = "page" /\ resp.status = 200
                /\ resp.template = "dashboard.html"
                /\ resp.flashed
                /\ resp.metrics = EmptyDict
          [] req.route \in {"orders", "inventory", "payments"} ->
                /\ resp.kind = "page" /\ resp.status = 200
                /\ resp.template = TemplateOf(req.route)
                /\ resp.flashed
                /\ resp.rows = <<>>
                /\ resp.warehouses = <<>>
                /\ resp.pagination \in {EmptyDict, DefaultPagination(ReqLimit)}
          [] OTHER -> resp = Redirect("dashboard", TRUE)

\* The test_acid page raised and answered with the redirect.
C8_Witness ==
    /\ ExceptionCaught
    /\ req.route = "test_acid"
    /\ resp.kind = "redirect"

\* Two entries of the query log name the same statement with the same values.
SameStatement(a, b) == a.stmt = b.stmt /\ a.args = b.args

\* C9 as stated: within one request a statement that failed is never issued
\* a second time, and each query statement is executed at most once.
C9_EachStatementAtMostOnce ==
    pc = "responded" =>
        \A i, j \in DOMAIN qlog : i < j => ~SameStatement(qlog[i], qlog[j])

\* C9, amended: no call site retries: within one request every query call
\* site hands its statement to the database at most once per execution of
\* that call site (once per loop iteration), whether the statement failed or
\* not.  The same statement can still reach the database again from another
\* call site or a later loop iteration, also after it has failed.
C9_NoCallSiteRetries ==
    pc = "responded" =>
        \A i, j \in DOMAIN qlog :
            i < j => <<qlog[i].site, qlog[i].iter>> # <<qlog[j].site, qlog[j].iter>>

\* A statement failed and the same statement was issued later in the request.
C9_Witness ==
    /\ pc = "responded"
    /\ "route" \in DOMAIN req
    /\ \E i, j \in DOMAIN qlog :
          i < j /\ ~qlog[i].ok /\ SameStatement(qlog[i], qlog[j])

\* C10: no request handler or service operation assigns the module-level
\* singletons or the connector's client, instance and database fields: they
\* are what initialize_services left, after any sequence of requests, and
\* nothing of a request is kept once it has been answered.
C10_ModuleStateUnchanged ==
    /\ singletons = InitialSingletons
    /\ singletons = before.singletons
    /\ connector = before.connector
    /\ pc = "idle" =>
          /\ req = NoRequest /\ got = NoResult /\ resp = NoResponse
          /\ qlog = <<>> /\ ~raised

\* A new order was accepted by a connected server.
C10_Witness ==
    /\ pc = "responded"
    /\ req.route = "api_new_order"
    /\ "success" \in DOMAIN got
    /\ got.success
    /\ connector.database # None

(***************************************************************************)
(* Concurrency claims (C11, C12), stated on the threads of SpecSteps.      *)
(***************************************************************************)
\* The statements of a program, in program order.
StatementsOf(op) ==
    LET sqls == SelectSeq(Program(op), LAMBDA ins : ins.kind = "sql")
    IN  [k \in DOMAIN sqls |-> sqls[k].stmt]

IsPrefix(s, t) == Len(s) <= Len(t) /\ \A k \in DOMAIN s : s[k] = t[k]

\* Every snapshot belongs to the running request that opened it, a worker that
\* is idle or has returned holds none, the answered statements are an initial
\* part of the method's statements in program order, and a request in
\* progress can always take its next step, whatever the other workers do.
SnapshotsAreRequestLocal ==
    \A w \in Workers :
       /\ threads[w].status # "running" => threads[w].snap = None
       /\ threads[w].snap # None => Val(threads[w].snap).owner = w
       /\ threads[w].status # "idle" =>
             IsPrefix([k \in DOMAIN threads[w].vals |-> threads[w].vals[k].stmt],
                      StatementsOf(threads[w].call.op))
       /\ threads[w].status = "running" =>
             ENABLED (OpenSnapshot(w) \/ ExecuteSql(w) \/ CloseSnapshot(w) \/ Return(w))

\* C11 as stated: each request issues its queries synchronously, one at a
\* time in program order, each inside a read snapshot opened during that
\* request and closed before the next query of the request starts; no snapshot
\* is shared between requests or open after the handler returns, and nothing
\* (lock, queue, batch) orders the requests.  Violated: test_connection runs
\* its two statements in one snapshot.
C11_SnapshotPerQuery ==
    /\ SnapshotsAreRequestLocal
    /\ \A w \in Workers :
          threads[w].snap # None => Val(threads[w].snap).statements <= 1

\* C11, amended: as stated, except that test_connection runs both of its
\* statements (SELECT 1 and the warehouse count) inside one snapshot; every
\* other snapshot is closed after one statement.
C11_SnapshotPerQueryButTestConnection ==
    /\ SnapshotsAreRequestLocal
    /\ \A w \in Workers :
          threads[w].snap # None =>
             Val(threads[w].snap).statements
                <= (IF threads[w].call.op = "test_connection" THEN 2 ELSE 1)

\* Two requests in progress at once, each holding its own snapshot with one
\* statement answered.
C11_Witness ==
    /\ \A w \in Workers :
          /\ threads[w].status = "running"
          /\ threads[w].snap # None
          /\ Val(threads[w].snap).statements = 1
    /\ threads[1].call.op = "get_orders"
    /\ threads[2].call.op = "get_order_status"

\* The calls whose statements C12 names.
TwoSnapshotCalls == PaginatedGetters \cup {"get_order_status"}

\* C12: no atomicity across the statements of one operation: the count and
\* the page query of a paginated getter, and the order and the order-lines
\* query of get_order_status, run in separate snapshots, so each statement
\* returns what the database holds when that statement runs: a write
\* committed between the two is seen by the later statement and not by the
\* earlier, and total_count and has_next may describe another database state
\* than the rows returned with them.
C12_EachStatementReadsCurrentState ==
    \A w \in Workers :
       (threads[w].status # "idle" /\ threads[w].call.op \in TwoSnapshotCalls) =>
          /\ \A k \in DOMAIN threads[w].vals :
                threads[w].vals[k].rows = threads[w].vals[k].current
          /\ (/\ threads[w].status = "returned" /\ ~threads[w].failed
              /\ threads[w].call.op \in PaginatedGetters) =>
                /\ threads[w].result.total_count = threads[w].vals[1].current[1]
                /\ threads[w].result.rows = threads[w].vals[2].current
                /\ threads[w].result.has_next =
                      (threads[w].call.offset + threads[w].call.limit
                          < threads[w].vals[1].current[1])

\* get_orders returned more rows than its total_count: an order was committed
\* between its count query and its page query.
C12_Witness ==
    \E w \in Workers :
       /\ threads[w].status = "returned"
       /\ threads[w].call.op = "get_orders"
       /\ ~threads[w].failed
       /\ threads[w].result.total_count < Len(threads[w].result.rows)
       /\ ~threads[w].result.has_next

(***************************************************************************)
(* Claims about execute_new_order (C13, C16-C19), stated on the call made  *)
(* in SpecNewOrder: req is the call, got its return value, qlog the        *)
(* statements it handed to the database.                                   *)
(***************************************************************************)
NewOrderReturned == pc = "responded" /\ "items" \in DOMAIN req

\* The call was made with a list of at least one item.
WithItems == NewOrderReturned /\ req.items # None /\ Val(req.items) # <<>>

ItemCount == IF req.items = None THEN 0 ELSE Len(Val(req.items))

\* The statement names of execute_new_order, all of them SELECT statements.
NewOrderSelects ==
    {"customer_query", "warehouse_query", "district_query", "order_id_query",
     "item_query", "stock_query"}

\* C13: execute_new_order issues only SELECT queries and commits nothing:
\* after any sequence of calls the tables (order_table, order_line, stock,
\* district, customer; new_order is not read or written at all) hold what
\* they held before.
C13_NewOrderIsReadOnly ==
    /\ db = before.db
    /\ NewOrderReturned => \A k \in DOMAIN qlog : qlog[k].stmt \in NewOrderSelects

\* A call that reported success with all its statements issued.
C13_Witness ==
    /\ WithItems
    /\ got.success
    /\ Len(qlog) = 4 + 2 * ItemCount
    /\ db = before.db

\* C16 as stated: every service-layer transaction operation issues between 3
\* and 6 sequential SELECT/COUNT queries per call, for every input (in
\* particular execute_new_order for any list of items).  Violated: no query
\* for an empty list, eight for two items.
C16_ThreeToSixQueries ==
    NewOrderReturned => Len(qlog) \in 3..6

\* C16, amended: execute_new_order issues no query when the item list is
\* empty, at most 4 + 2 * len(items) queries otherwise, and exactly
\* 4 + 2 * len(items) when it reports success.
C16_QueriesGrowWithItems ==
    NewOrderReturned =>
       /\ ~WithItems => qlog = <<>>
       /\ Len(qlog) <= 4 + 2 * ItemCount
       /\ got.success => Len(qlog) = 4 + 2 * ItemCount

\* A successful order of two items: eight statements.
C16_Witness ==
    /\ WithItems
    /\ got.success
    /\ ItemCount = 2
    /\ Len(qlog) = 8

\* Every row the order needs exists and every statement of the call runs.
AllRowsExist ==
    /\ connector.database # None
    /\ req.faults \cap 1..(4 + 2 * ItemCount) = {}
    /\ <<req.w, 1, 1>> \in db.customer
    /\ req.w \in db.warehouse
    /\ <<req.w, 1>> \in db.district
    /\ \A k \in DOMAIN Val(req.items) :
          /\ Val(req.items)[k].item_id \in db.item
          /\ \E j \in DOMAIN db.stock :
                db.stock[j].w = req.w /\ db.stock[j].i = Val(req.items)[k].item_id

\* C17: no data invariant is enforced on a new order: when the customer,
\* warehouse, district, item and stock rows exist, execute_new_order reports
\* success for any integer quantity (more than the stock row's s_quantity,
\* zero, negative); the quantity is never compared with the stock.
C17_AnyQuantityIsAccepted ==
    (WithItems /\ AllRowsExist) =>
       /\ got.success
       /\ got.items_count = ItemCount

\* An order of more than any stock row holds, and of a negative quantity.
C17_Witness ==
    /\ WithItems /\ AllRowsExist
    /\ got.success
    /\ \E k \in DOMAIN Val(req.items) :
          \A j \in DOMAIN db.stock : Quantity(Val(req.items)[k]) > db.stock[j].qty
    /\ \E k \in DOMAIN Val(req.items) : Quantity(Val(req.items)[k]) < 0

\* The statements execute_new_order issues for its items when none fails.
ValidationOrder(items) ==
    <<"customer_query", "warehouse_query", "district_query", "order_id_query">>
    \o [j \in 1..(2 * Len(items)) |-> IF j % 2 = 1 THEN "item_query" ELSE "stock_query"]

\* The position of a statement has no row to return, or the statement fails.
NoRowAt(j) ==
    \/ j \in req.faults
    \/ j = 1 /\ <<req.w, 1, 1>> \notin db.customer
    \/ j = 2 /\ req.w \notin db.warehouse
    \/ j = 3 /\ <<req.w, 1>> \notin db.district
    \/ j > 4 /\ j % 2 = 1 /\ Val(req.items)[(j - 3) \div 2].item_id \notin db.item
    \/ j > 4 /\ j % 2 = 0
         /\ ~\E k \in DOMAIN db.stock :
                db.stock[k].w = req.w /\ db.stock[k].i = Val(req.items)[(j - 4) \div 2].item_id

\* The head of the error message naming the entity of a statement.
EntityError(stmt) ==
    CASE stmt = "customer_query" -> "Customer not found"
      [] stmt = "warehouse_query" -> "Warehouse not found"
      [] stmt = "district_query" -> "District not found"
      [] stmt = "order_id_query" -> "Failed to get next order ID"
      [] stmt = "item_query" -> "Item "
      [] stmt = "stock_query" -> "Stock not found for item "

\* C18: execute_new_order validates in a fixed order and stops at the first
\* failure: an empty list returns 'No items provided' before any query;
\* otherwise customer, warehouse, district, next order id, then per item the
\* item row and the stock row; the first query that returns no row ends the
\* call with the error naming its entity, and no later query is issued.
C18_ValidatesInOrderAndStops ==
    NewOrderReturned =>
       /\ req.items = Some(<<>>) => (got = Failure("No items provided") /\ qlog = <<>>)
       /\ (WithItems /\ connector.database # None) =>
             /\ IsPrefix([k \in DOMAIN qlog |-> qlog[k].stmt], ValidationOrder(Val(req.items)))
             /\ \A k \in DOMAIN qlog :
                   /\ k < Len(qlog) => ~NoRowAt(k)
                   /\ qlog[k].stmt \in {"item_query", "stock_query"} =>
                         qlog[k].args[1] = Val(req.items)[qlog[k].iter].item_id
             /\ got.success <=> (\A j \in 1..(4 + 2 * ItemCount) : ~NoRowAt(j))
             /\ ~got.success =>
                   /\ NoRowAt(Len(qlog))
                   /\ got.error[1] = EntityError(qlog[Len(qlog)].stmt)

\* The second item of an order is not in the item table: seven statements,
\* the last one answered with no row.
C18_Witness ==
    /\ WithItems
    /\ Len(qlog) = 7
    /\ qlog[7].ok
    /\ got = Failure(<<"Item ", Val(req.items)[2].item_id, " not found">>)

\* C19: execute_query never raises: it returns [] without a database and on
\* any failure, so its caller cannot tell a failure from an empty result:
\* execute_new_order reports 'Customer not found' when its first query
\* fails or there is no database, and the not-found error of the entity
\* whose query failed otherwise.
C19_FailureLooksLikeNoRows ==
    WithItems =>
       /\ ~raised
       /\ connector.database = None =>
             (qlog = <<>> /\ got = Failure(<<"Customer not found">>))
       /\ \A k \in DOMAIN qlog :
             ~qlog[k].ok =>
                /\ k = Len(qlog)
                /\ ~got.success
                /\ got.error[1] = EntityError(qlog[k].stmt)
                /\ k = 1 => got = Failure(<<"Customer not found">>)

\* The customer row exists, the customer query failed, and the call says the
\* customer was not found.
C19_Witness ==
    /\ WithItems
    /\ <<req.w, 1, 1>> \in db.customer
    /\ Len(qlog) = 1 /\ ~qlog[1].ok
    /\ got = Failure(<<"Customer not found">>)

(***************************************************************************)
(* Claims about the ACID tests (C14), stated on the response of            *)
(* api_test_acid in SpecPost.                                              *)
(***************************************************************************)
AcidTestResponded == pc = "responded" /\ req.route = "api_test_acid"

\* The statements of acid_tests.py.
AcidSelects ==
    {"SELECT COUNT(*) as count FROM warehouse", "SELECT COUNT(*) as count FROM district",
     "SELECT COUNT(*) as count FROM customer", "SELECT COUNT(*) as count FROM order_table",
     "SELECT COUNT(*) as count FROM order_line", "SELECT DISTINCT d_w_id FROM district",
     "SELECT w_id FROM warehouse WHERE w_id = {w_id}"}

\* C14: the ACID tests are read-only: every statement they issue is a SELECT
\* (COUNT, DISTINCT, a key lookup) and after any sequence of test runs the
\* database holds what it held before.
C14_AcidTestsAreReadOnly ==
    AcidTestResponded =>
       /\ db = before.db
       /\ \A k \in DOMAIN qlog : qlog[k].stmt \in AcidSelects

\* The whole suite ran and passed.
C14_Witness ==
    /\ AcidTestResponded
    /\ req.test_type = "all"
    /\ got.summary.passed_tests = 4
    /\ Len(qlog) > 8
    /\ db = before.db

(***************************************************************************)
(* Claims about the failure value of the paginated getters (C20), stated   *)
(* on the calls of SpecReads.                                              *)
(***************************************************************************)
PaginatedReturned ==
    /\ pc \in {"called", "responded"}
    /\ req.op \in PaginatedGetters

\* There is no database, or a statement of the call fails (the database
\* rejects a negative LIMIT or OFFSET).
PaginatedCallFails ==
    \/ connector.database = None
    \/ req.faults # {}
    \/ ~DbAcceptsPage(req.limit, req.offset)

\* C20: the paginated getters (get_orders, get_inventory_paginated,
\* get_payment_history_paginated) never raise: they always return their
\* result dict, and on any failure, a missing database included, it holds an
\* empty list, total_count 0, has_next false and has_prev false, with limit
\* and offset echoed; has_prev is false even when offset > 0.
C20_FailureIsAnEmptyPage ==
    PaginatedReturned =>
       /\ DOMAIN got = {"rows", "total_count", "limit", "offset", "has_next", "has_prev"}
       /\ PaginatedCallFails =>
             /\ got.rows = <<>>
             /\ got.total_count = 0
             /\ ~got.has_next
             /\ ~got.has_prev
             /\ got.limit = req.limit
             /\ got.offset = req.offset

\* The page query of a call with offset > 0 failed after the count query ran.
C20_Witness ==
    /\ PaginatedReturned
    /\ req.offset > 0
    /\ Len(qlog) >= 2 /\ qlog[1].ok /\ ~qlog[2].ok
    /\ ~got.has_prev
    /\ got.offset = req.offset

(***************************************************************************)
(* Claims about the column names of execute_query (C15), stated on the     *)
(* conversions of SpecConvert.                                             *)
(***************************************************************************)
\* The result set exposes no field metadata.
NoMetadata == req.fields = None \/ req.fields = Some(<<>>)

\* The names the fallback is said to infer: from the select list, the alias
\* if there is one, else the name without its table prefix; else 'count' for
\* a COUNT query; else col_0 .. col_{n-1} from the width of the first row.
InferredNames(query, rows_data) ==
    IF query.select_from
    THEN [k \in DOMAIN query.cols |-> OrElse(query.cols[k].alias, query.cols[k].name)]
    ELSE IF query.count_star THEN <<"count">>
    ELSE IF rows_data = <<>> THEN <<>>
    ELSE [k \in DOMAIN rows_data[1] |-> ColName(k - 1)]

\* C15: when the result set exposes no field metadata, execute_query infers
\* the column names and still returns the rows as dicts: the names come from
\* the text between SELECT and FROM (alias after ' AS ', table prefix
\* removed), else 'count' for a COUNT query, else col_0..col_{n-1}; the value
\* at position i is stored under the i-th inferred name.
C15_RowsUnderInferredNames ==
    (pc = "responded" /\ NoMetadata) =>
       got.rows = BuildRows(InferredNames(req.query, req.rows_data), req.rows_data)

(***************************************************************************)
(* Claims about get_order_status (C21), stated on the calls of SpecReads.  *)
(***************************************************************************)
\* The call has returned, and qlog holds the statements of this one call.
StatusReturned ==
    /\ pc = "called"
    /\ req.op = "get_order_status"

\* The rows of the order query: the orders of the customer (joined with the
\* customer row), oldest first.
OrdersOfCustomer ==
    SelectSeq(db.orders,
              LAMBDA o : /\ o.w = req.warehouse_id /\ o.d = req.district_id
                         /\ o.c = req.customer_id
                         /\ <<o.w, o.d, o.c>> \in db.customer)

\* The order lines of an order of the request's district, joined with item.
LinesOfOrder(order_id) ==
    SelectSeq(db.order_line,
              LAMBDA ol : /\ ol.w = req.warehouse_id /\ ol.d = req.district_id
                          /\ ol.o_id = order_id /\ ol.i \in db.item)

\* C21: get_order_status returns the customer's most recent order: with no
\* order it returns 'Order not found' without issuing the order-lines query;
\* with an order found, the order-lines query is issued for that order's id
\* and the result has success = true with order_line_count equal to the
\* number of entries of order_lines; any exception (no database, a failing
\* statement) yields success = false with the message.
C21_MostRecentOrderOfCustomer ==
    StatusReturned =>
       /\ (connector.database = None \/ req.faults \cap {1} # {}) => ~got.success
       /\ (connector.database # None /\ 1 \notin req.faults /\ OrdersOfCustomer = <<>>) =>
             /\ got = Failure("Order not found")
             /\ \A k \in DOMAIN qlog : qlog[k].stmt # "order_lines_query"
       /\ (connector.database # None /\ 1 \notin req.faults /\ OrdersOfCustomer # <<>>) =>
             /\ Len(qlog) = 2 /\ qlog[2].stmt = "order_lines_query"
             /\ 2 \in req.faults => ~got.success
             /\ 2 \notin req.faults =>
                   /\ got.success
                   /\ got.order_id = OrdersOfCustomer[Len(OrdersOfCustomer)].o_id
                   /\ got.order_lines = LinesOfOrder(got.order_id)
                   /\ got.order_line_count = Len(got.order_lines)

\* The customer's most recent order is not the most recent order of the
\* district.
C21_Witness ==
    /\ StatusReturned
    /\ got.success
    /\ got.order_id < Len(db.orders)
    /\ got.order_line_count = 1
    /\ \E k \in DOMAIN db.orders : db.orders[k].c # req.customer_id

(***************************************************************************)
(* Claims about the query builders (C22), stated on the queries built in   *)
(* SpecBuild: req.call is the getter call, got the queries built for it.   *)
(***************************************************************************)
\* The arguments of the call that carry a parameter, in filter order.
CarriedArguments ==
    LET c == req.call
        first == IF c.warehouse_id # None THEN <<"warehouse_id">> ELSE <<>>
    IN  IF c.op = "get_inventory_paginated"
        THEN first
             \o (IF c.low_stock_threshold # None THEN <<"low_stock_threshold">> ELSE <<>>)
             \o (IF c.item_search \notin {None, Some("")} THEN <<"item_search">> ELSE <<>>)
        ELSE first
             \o (IF c.district_id # None THEN <<"district_id">> ELSE <<>>)
             \o (IF c.customer_id # None THEN <<"customer_id">> ELSE <<>>)

\* The conditions that write a placeholder, in order.
Parameterised == SelectSeq(got.where_conditions, LAMBDA w : w.placeholders # <<>>)

\* C22: in the paginated query builders, for every subset of supplied
\* filters with k parameter-carrying filters, the WHERE placeholders are
\* exactly $1..$k in filter order with no gap or repeat across filters, LIMIT
\* is $k+1 and OFFSET is $k+2, the page query is executed with exactly the
\* parameters p1..p(k+2) and the count query with exactly p1..pk; the status
\* filter of get_orders binds no parameter, and a status other than 'new' or
\* 'delivered' adds no condition.
C22_PlaceholdersAreDense ==
    pc = "responded" =>
       LET k == Len(CarriedArguments)
       IN  /\ Len(Parameterised) = k
           /\ \A j \in 1..k : \A u \in DOMAIN Parameterised[j].placeholders :
                 Parameterised[j].placeholders[u] = j
           /\ got.limit_placeholder = k + 1
           /\ got.offset_placeholder = k + 2
           /\ got.count_params = {<<j, CarriedArguments[j]>> : j \in 1..k}
           /\ got.page_params =
                 got.count_params \cup {<<k + 1, "limit">>, <<k + 2, "offset">>}
           /\ \A e \in DOMAIN qlog :
                 qlog[e].params = IF qlog[e].stmt = "count_query"
                                  THEN got.count_params ELSE got.page_params
           /\ req.call.op = "get_orders" =>
                 Len(got.where_conditions) =
                    k + (IF req.call.status \in {Some("new"), Some("delivered")} THEN 1 ELSE 0)

\* get_orders without warehouse_id, with district_id, customer_id and status
\* 'new': three conditions, two parameters, both statements executed.
C22_Witness ==
    /\ pc = "responded"
    /\ req.call.op = "get_orders"
    /\ req.call.warehouse_id = None
    /\ req.call.status = Some("new")
    /\ Len(got.where_conditions) = 3
    /\ got.where_conditions[1].placeholders = <<1>>
    /\ got.limit_placeholder = 3
    /\ Len(qlog) = 2

(***************************************************************************)
(* Claims about get_dashboard_metrics (C23, C24), stated on the call made  *)
(* in SpecReads: req is the call, got its result, qlog its statements.     *)
(***************************************************************************)
DashboardReturned == pc = "called" /\ req.op = "get_dashboard_metrics"

\* The statements of the log issued by the metric blocks of the service.
MetricStatements == {k \in DOMAIN qlog : qlog[k].stmt # "SELECT 1 as test"
                                          /\ qlog[k].site # "spanner_connector.py:98"}

\* The connection test of the call came back false.
ConnectionTestFailed == ~test_connection(connector, req.faults, 0).result

\* C23: get_dashboard_metrics tests the connection before anything else: with
\* no connector, or when test_connection returns false, it returns an error
\* together with the default metrics (all zero) and issues no metric query;
\* metric queries are issued only after a successful connection test, and a
\* result never contains both success and error.
C23_ConnectionTestedFirst ==
    DashboardReturned =>
       /\ (~req.has_connector \/ ConnectionTestFailed) =>
             /\ "error" \in DOMAIN got
             /\ got.metrics = _get_default_metrics
             /\ \A key \in DOMAIN got.metrics : got.metrics[key] = 0
             /\ MetricStatements = {}
       /\ \A k \in MetricStatements :
             /\ k > 1
             /\ qlog[1].stmt = "SELECT 1 as test"
             /\ qlog[1].ok
       /\ ~({"success", "error"} \subseteq DOMAIN got)
       /\ {"success", "error"} \cap DOMAIN got # {}

\* The first statement of the connection test fails on a connected connector:
\* the error result, and nothing issued but that statement.
C23_Witness ==
    /\ DashboardReturned
    /\ req.has_connector
    /\ connector.database # None
    /\ 1 \in req.faults
    /\ "error" \in DOMAIN got
    /\ Len(qlog) = 1
    /\ Len(db.orders) > 0

\* The metric queries (numbered as in MetricQueries) each metric is computed
\* from.
MetricSources ==
    [total_warehouses |-> {1}, total_customers |-> {2}, total_orders |-> {3},
     total_items |-> {4}, new_orders |-> {5}, low_stock_items |-> {6},
     orders_last_24h |-> {7}, avg_order_value |-> {8, 9}, total_revenue |-> {8},
     avg_customer_orders |-> {2, 3}, total_stock_value |-> {10}, total_payments |-> {11},
     total_payment_amount |-> {11}, avg_payment_amount |-> {11},
     customers_with_orders |-> {12}, customer_activity_rate |-> {12}]

\* The metric queries that failed in the call (positions 3..14 of the call).
FailedMetricQueries == {j \in 1..12 : (j + 2) \in req.faults}

\* C24: on every path the result of get_dashboard_metrics has a metrics entry
\* whose key set is exactly the 16 keys of _get_default_metrics; a metric
\* whose query fails is 0 and the others are still computed (they have the
\* value they have when no query fails).
C24_SixteenMetricsAlways ==
    DashboardReturned =>
       /\ "metrics" \in DOMAIN got
       /\ DOMAIN got.metrics = DOMAIN _get_default_metrics
       /\ Cardinality(DOMAIN got.metrics) = 16
       /\ "success" \in DOMAIN got =>
             \A key \in DOMAIN got.metrics :
                IF MetricSources[key] \cap FailedMetricQueries # {}
                THEN got.metrics[key] = 0
                ELSE got.metrics[key] =
                        get_dashboard_metrics(connector, db, {}).result.metrics[key]

\* The customer count fails while the tables have rows: total_customers is 0,
\* the order count and the payment count are not.
C24_Witness ==
    /\ DashboardReturned
    /\ "success" \in DOMAIN got
    /\ FailedMetricQueries = {2}
    /\ got.metrics.total_customers = 0
    /\ db.customer # {}
    /\ got.metrics.total_orders > 0
    /\ got.metrics.customers_with_orders > 0

(***************************************************************************)
(* C25, stated on the order entries of SpecNewOrder: got is the result of  *)
(* the first call, again the result of the second.                         *)
(***************************************************************************)
\* The o_id values of the orders of the call's warehouse and district.
DistrictOrderIds ==
    {db.orders[k].o_id : k \in {j \in DOMAIN db.orders :
                                   db.orders[j].w = req.w /\ db.orders[j].d = 1}}

\* C25: the order id reported by execute_new_order is the greatest existing
\* o_id of the (warehouse, district) plus 1, or 1 when the district has no
\* order; any two successful calls for the same warehouse and district with
\* no database change between them report the same order_id.
C25_NextOrderIdIsMaxPlus1 ==
    /\ (NewOrderReturned /\ got.success) =>
          IF DistrictOrderIds = {} THEN got.order_id = 1
          ELSE /\ (got.order_id - 1) \in DistrictOrderIds
               /\ \A n \in DistrictOrderIds : n < got.order_id
    /\ (pc = "repeated" /\ again.success /\ db = before.db) =>
          again.order_id = got.order_id

\* Two successful calls with different items on a district whose two orders
\* have the ids 1 and 3 (stored 3 first): both report 4.
C25_Witness ==
    /\ pc = "repeated"
    /\ again.success
    /\ got.order_id = 4
    /\ Cardinality(DistrictOrderIds) = 2
    /\ db.orders[1].o_id = 3
    /\ again.total_amount # got.total_amount

(***************************************************************************)
(* C26, stated on the responses of SpecHandlers.                           *)
(***************************************************************************)
HealthResponded == pc = "responded" /\ req.route = "api_health"

\* The connector has no database, or the first statement of its connection
\* test failed.
CannotReachDatabase ==
    \/ connector.database = None
    \/ qlog # <<>> /\ ~qlog[1].ok

\* C26: GET /api/health answers 'unhealthy' with HTTP 500 only when building
\* the status raises; since test_connection catches every exception and
\* returns false, a connector that cannot reach the database (or has
\* database = None) yields HTTP 200 with status = 'healthy' and
\* database_connection = false.
C26_HealthyWithoutDatabase ==
    HealthResponded =>
       /\ (resp.status = 500 \/ resp.body.status = "unhealthy") => raised
       /\ raised => (resp.status = 500 /\ resp.body.status = "unhealthy")
       /\ (~raised /\ CannotReachDatabase) =>
             /\ resp.status = 200
             /\ resp.body.status = "healthy"
             /\ resp.body.database_connection = FALSE
       /\ (~raised /\ ~CannotReachDatabase) => resp.body.database_connection = TRUE

\* The test statement fails on a connected connector: 200, 'healthy',
\* database_connection false.
C26_Witness ==
    /\ HealthResponded
    /\ connector.database # None
    /\ Len(qlog) = 1
    /\ ~qlog[1].ok
    /\ resp.status = 200
    /\ resp.body.status = "healthy"
    /\ ~resp.body.database_connection

(***************************************************************************)
(* C27, stated on the whole suite run by api_test_acid in SpecPost.        *)
(***************************************************************************)
SuiteResponded == AcidTestResponded /\ req.test_type = "all"

\* The positions of the log at which a statement of the given site and
\* iteration was issued.
IssuedAt(site, iter) == {k \in DOMAIN qlog : qlog[k].site = site /\ qlog[k].iter = iter}

\* The first statement of each test, in the order of the suite.
FirstStatements ==
    << IssuedAt("acid_tests.py:36", 1), IssuedAt("acid_tests.py:144", 0),
       IssuedAt("acid_tests.py:212", 0), IssuedAt("acid_tests.py:266", 0) >>

\* C27: run_all_tests runs the four tests exactly once each, in the order
\* atomicity, consistency, isolation, durability, each regardless of an
\* earlier failure; in its summary total_tests = 4, passed_tests is the number
\* of results with passed = true, passed_tests + failed_tests = total_tests
\* and success_rate = 25 * passed_tests.
C27_FourTestsAlways ==
    SuiteResponded =>
       /\ [j \in DOMAIN got.tests |-> got.tests[j].test]
             = <<"Atomicity", "Consistency", "Isolation", "Durability">>
       /\ connector.database # None =>
             /\ \A j \in 1..4 : Cardinality(FirstStatements[j]) = 1
             /\ \A j \in 1..3 : \A a \in FirstStatements[j], b \in FirstStatements[j + 1] : a < b
       /\ got.summary.total_tests = 4
       /\ got.summary.passed_tests
             = Cardinality({j \in DOMAIN got.tests : got.tests[j].passed})
       /\ got.summary.passed_tests + got.summary.failed_tests = got.summary.total_tests
       /\ got.summary.success_rate = 25 * got.summary.passed_tests

\* The first test fails, the three after it still run and pass: 75.
C27_Witness ==
    /\ SuiteResponded
    /\ connector.database # None
    /\ ~got.tests[1].passed
    /\ got.tests[4].passed
    /\ got.summary.passed_tests = 3
    /\ got.summary.success_rate = 75

(***************************************************************************)
(* C28, stated on the runs of test_consistency in SpecConsistency.         *)
(***************************************************************************)
ConsistencyReturned == pc = "responded" /\ req.op = "test_consistency"

\* The distinct warehouse ids of the district table.
DistrictWarehouseIds == {x[1] : x \in db.district}

\* The district query returned rows.
DistrictRowsReturned ==
    /\ connector.database # None
    /\ 1 \notin req.faults
    /\ DistrictWarehouseIds # {}

\* The positions of the log holding a warehouse check, and those whose check
\* found the warehouse.
CheckedAt == {k \in DOMAIN qlog : qlog[k].site = "acid_tests.py:155"}
FoundAt == {k \in CheckedAt : qlog[k].ok /\ qlog[k].args[1] \in db.warehouse}

\* C28: test_consistency checks at most the first 5 distinct ids and reports
\* passed = true exactly when the district query returned rows and at least
\* 80% of the checked ids were found (5 * passed_checks >= 4 * test_count);
\* with no district rows or a failed query, passed = false.
C28_EightyPercentOfFive ==
    ConsistencyReturned =>
       /\ Cardinality(CheckedAt) <= 5
       /\ Cardinality(CheckedAt)
             = IF DistrictRowsReturned THEN Min(5, Cardinality(DistrictWarehouseIds)) ELSE 0
       /\ \A k \in CheckedAt :
             qlog[k].args = <<Ascending(DistrictWarehouseIds)[qlog[k].iter]>>
       /\ \A a, b \in CheckedAt : a # b => qlog[a].iter # qlog[b].iter
       /\ got.passed <=> /\ DistrictRowsReturned
                         /\ 5 * Cardinality(FoundAt) >= 4 * Cardinality(CheckedAt)
       /\ ~DistrictRowsReturned => ~got.passed

\* Six ids in the district table: five are checked, four are found, passed.
C28_Witness ==
    /\ ConsistencyReturned
    /\ Cardinality(DistrictWarehouseIds) = 6
    /\ Cardinality(CheckedAt) = 5
    /\ Cardinality(FoundAt) = 4
    /\ got.passed

(***************************************************************************)
(* C29, stated on the threads of SpecIsolation.  vals holds, for each read *)
(* made so far, the rows it returned and (current) the count row of the    *)
(* customer table at the moment the read ran.                              *)
(***************************************************************************)
IsolationThreads ==
    {w \in Workers : threads[w].status # "idle" /\ threads[w].call.op = "test_isolation"}

\* C29: test_isolation reports passed = true exactly when its three
\* successive customer-count reads each return a row and all three counts
\* are equal, and false otherwise; each read runs in its own snapshot (one
\* statement per snapshot, answered from the database as it is when the read
\* runs), so under a writer that commits customer inserts and deletes the
\* verdict is determined by the interleaving: it is true exactly when the
\* three reads were answered and met the same customer count.
C29_VerdictFollowsInterleaving ==
    \A w \in IsolationThreads :
       /\ threads[w].snap # None => Val(threads[w].snap).statements <= 1
       /\ \A k \in DOMAIN threads[w].vals :
             threads[w].vals[k].rows \in {<<>>, threads[w].vals[k].current}
       /\ threads[w].status = "returned" =>
             (threads[w].result.passed <=>
                 /\ Len(threads[w].vals) = 3
                 /\ \A k \in 1..3 : /\ threads[w].vals[k].rows # <<>>
                                    /\ threads[w].vals[k].current = threads[w].vals[1].current)

\* Three answered reads with a commit between the second and the third: the
\* counts are 2, 2, 3 and the test reports false.
C29_Witness ==
    \E w \in IsolationThreads :
       /\ threads[w].status = "returned"
       /\ Len(threads[w].vals) = 3
       /\ \A k \in 1..3 : threads[w].vals[k].rows # <<>>
       /\ threads[w].vals[1].rows = threads[w].vals[2].rows
       /\ threads[w].vals[3].rows # threads[w].vals[2].rows
       /\ ~threads[w].result.passed

====
